---------------------------- MODULE Spec2Model ----------------------------
(***************************************************************************)
(* A model of astro (uber/astro): the session operations plan, apply and   *)
(* applyWithGraph (astro/sessions.go), the bounded-parallel runner         *)
(* (astro/utils/parallel.go), the process runner (astro/exec2/process.go), *)
(* the construction of the dependency graph (astro/execution_set.go,       *)
(* astro/graph.go, astro/astro.go) and the Terraform version repository    *)
(* (astro/tvm/versionrepo.go).                                             *)
(*                                                                         *)
(* Every goroutine of the program is a process of the model; an action is  *)
(* one step of one goroutine between two accesses to shared state.         *)
(*                                                                         *)
(* Specifications:                                                         *)
(*   Spec        one operation of a Session (plan, flat apply or           *)
(*               applyWithGraph) with signals arriving at any time;        *)
(*   SpecLive    Spec with weak fairness of every goroutine's steps;       *)
(*   SpecRun     goroutines calling exec2.Process.Run one call after       *)
(*               another, with signals arriving at any time;               *)
(*   SpecProject NewProject on a configuration, then Project.Apply;        *)
(*   SpecTvm     goroutines calling tvm.VersionRepo.Get concurrently;      *)
(*   SpecPar     utils.Parallel running functions under its limit;         *)
(*   SpecStatus  the status channel between the workers and its reader;    *)
(*   SpecGraph   executionSet.graph on the executions of a project;        *)
(*   SpecBind    the binding of user variables to executions;              *)
(*   SpecFilter  the selection of modules by name;                         *)
(*   SpecApply   Project.Apply choosing flat apply or applyWithGraph;      *)
(*   SpecHooks   the PreModuleRun hooks of plan and apply;                 *)
(*   SpecSession the session directories of the repository;                *)
(*   SpecTool    the Terraform commands of one session (init, plan,        *)
(*               apply, detach);                                           *)
(*   SpecZip     the extraction of a downloaded Terraform archive;         *)
(*   SpecEnv     a startup hook whose output sets the environment;         *)
(*   SpecDisplay printExecStatus writing the results of an operation;      *)
(*   SpecInherit hooks with set_env beside the start of child processes;   *)
(*   SpecSandbox the rewrite of the hard-linked files of a sandbox.        *)
(***************************************************************************)
EXTENDS Integers, Sequences, FiniteSets, TLC

(***************************************************************************)
(* Bounds of the model.                                                    *)
(***************************************************************************)
\* Number of modules of the project. The modules of the session
\* specifications declare no variables, so each has exactly one execution
\* (modules.go:51-60) and executions are identified with modules.
NumExecs == 3
\* Number of executions that ExecutionParameters.ModuleNames selects for
\* Session.plan and the flat Session.apply (at most NumExecs).
NumNamed == 2
\* Largest number of PreModuleRun hooks of a module.
MaxHooks == 1
\* Number of SIGINT/SIGTERM signals the astro process receives.
MaxSignals == 2
\* Number of goroutines of SpecRun that call Process.Run (at most NumExecs).
NumWorkers == 2
\* Number of Process.Run calls the goroutines of SpecRun make in all.
MaxRuns == 3
\* Largest number of dependencies of a module in SpecProject.
MaxDeps == 1
\* Largest number of PreModuleRun hooks of a module in SpecStatus.
MaxStatusHooks == 8
\* Largest number of variables of a module in SpecBind.
MaxVars == 2
\* Largest number of values of a variable (len(Variable.Values)).
MaxValues == 2
\* Entries of the archive given to unzip.
MaxEntries == 2
\* Bytes of the output of a hook.
MaxOutput == 6
\* Results that the results channel delivers to printExecStatus.
MaxResults == 2
\* Files of the module whose session is detached.
MaxFiles == 2
\* Number of goroutines of SpecTvm that call VersionRepo.Get.
NumGetters == 2
\* Number of Terraform versions asked for in SpecTvm.
NumVersions == 2

\* utils.Parallel(10, fns...) in Session.plan and Session.apply.
ParallelLimit == 10
\* Largest maxConcurrent that SpecPar gives to utils.Parallel (the number of
\* fns is NumExecs).
MaxConcurrent == 2

Execs == 1 .. NumExecs

\* A module name that no module of the project has.
Missing == NumExecs + 1

Getters == 1 .. NumGetters

Versions == 1 .. NumVersions

VARIABLES
    \* ---- the operation (astro/astro.go, astro/sessions.go) ----
    op,            \* "plan", "apply", "applyWithGraph"; "run" (Process.Run alone);
                   \* "NewProject" (the project is being constructed); "Get" (tvm);
                   \* "Parallel" (utils.Parallel alone)
    maxConcurrent, \* the maxConcurrent parameter of utils.Parallel
    detach,        \* the detach parameter of Session.plan
    consumed,      \* the caller of the operation receives from the status channel
    deps,          \* deps[m]: the modules named by conf.Module.Deps of module m
    project,       \* what NewProject returned: "none" (not called), "ok", "error"
    hooks,         \* hooks[e] = len(ModuleConfig().Hooks.PreModuleRun) of e's module
    \* ---- modules with variables, user variables and binding ----
    modules,       \* c.config.Modules: the conf.Module of every module
    userVars,      \* parameters.UserVars.Values: the variables the user gave
    moduleNames,   \* parameters.ModuleNames: nil, or the names the caller gave
    unbound,       \* the executionSet that c.executions(parameters) returned
    binds,         \* what unbound.bind(userVars) returned, for the executions
                   \* that the loop of bindAll has come to
    planRet,       \* what Project.Plan / Project.Apply returned: "none" (it has
                   \* not returned), "error", "channels"
    pc,            \* pc[e]: where execution e's goroutine is
    hookIdx,       \* hookIdx[e]: PreModuleRun hooks already run by e's goroutine
    results,       \* the results channel: results[id] = error flags of the Results with that id
    closed,        \* number of times close(results) has run
    status,        \* the status channel: number of lines in it
    \* ---- dag.AcyclicGraph.Walk, as called by applyWithGraph ----
    vstate,        \* vstate[e]: "pending", "ok" (callback returned nil),
                   \* "err" (callback returned an error), "upstream" (not walked)
    \* ---- utils.Parallel ----
    ownerPc,       \* the goroutine that closes results: "off", "loop" (Parallel's
                   \* for _, fn := range fns), "wait" (wg.Wait), "walk" (graph.Walk), "done"
    parNext,       \* index of the next fn of the loop
    guard,         \* number of tokens in the guard channel
    isShutDown,    \* Parallel's isShutDown
    signalCh,      \* Parallel's signalCh (capacity 1): number of signals in it
    notices,       \* number of "Received signal" lines printed
    \* ---- exec2.Process.Run ----
    child,         \* child[e]: "none" or "running" (the child of e's current Run)
    sigChan,       \* sigChan[e]: signals in the channel of e's current Run (capacity 1)
    errors,        \* errors[e]: the Run's local errors is non-nil (a signal was received)
    isInterrupted, \* the package variable isInterrupted
    notified,      \* signal.Notify has been called by the process
    signals,       \* number of signals the process has received
    \* ---- what a caller of Process.Run observes (SpecRun) ----
    arrived,       \* arrived[e]: signals that arrived while e's Run was waiting
    forwarded,     \* forwarded[e]: process.Signal calls of e's Run
    runs,          \* number of Process.Run calls the goroutines have made
    ret,           \* ret[e]: what the last Run of goroutine e returned
    \* ---- history of the operation ----
    spawned,       \* spawned[e]: e's goroutine has started a child process
    lateSends,     \* number of Results sent on results after close(results)
    \* ---- tvm.VersionRepo ----
    tpc,           \* tpc[g]: where goroutine g is in Get / download / unzip
    tver,          \* tver[g]: the version g asked for
    lock,          \* lock[v]: the goroutine holding the download lock of v, or 0
    file,          \* file[v]: the binary at terraformPath(v): "missing", "partial", "complete"
    downloads,     \* downloads[v]: downloads of v's zip file that completed
    got,           \* got[g]: what Get returned to g
    \* ---- terraform.Session, hooks and the extraction of archives ----
    sessionDirs,   \* the directories of Terraform sessions under the session's path
    tool,          \* a terraform.Session and the subprocesses its methods have run
    zip,           \* a call of unzip: the archive, the files written, the error
    env,           \* a hook with set_env: its output and the process environment
    \* ---- the command line, the environment of children, the sandbox ----
    display,       \* printExecStatus: the Results to print and what was written
    inherit,       \* the process environment and what each child was started with
    sandbox        \* the files of the code root and of a session's sandbox

bindVars == <<modules, userVars, moduleNames, unbound, binds, planRet>>
confVars == <<op, maxConcurrent, detach, consumed, deps, project, hooks, bindVars>>
sessVars == <<pc, hookIdx, results, closed, status, vstate>>
parVars  == <<ownerPc, parNext, guard, isShutDown, signalCh, notices>>
runVars  == <<child, sigChan, errors, isInterrupted, notified, signals>>
obsVars  == <<arrived, forwarded, runs, ret>>
histVars == <<spawned, lateSends>>
tvmVars  == <<tpc, tver, lock, file, downloads, got>>
toolVars == <<sessionDirs, tool, zip, env, display, inherit, sandbox>>
vars == <<confVars, sessVars, parVars, runVars, obsVars, histVars, tvmVars, toolVars>>

(***************************************************************************)
(* exec2.Process: exit status of a child and the success test.             *)
(***************************************************************************)
\* What p.execCmd.Wait() can leave in ProcessState: the child exited with a
\* code, or it was terminated by a signal (Exited() is false).
ExitCodes == {0, 1, 2}
Outcomes == [exited : {TRUE}, code : ExitCodes] \cup [exited : {FALSE}, code : {-1}]
NoOutcome == [exited |-> FALSE, code |-> -1]

Exited(o) == o.exited

ExitCode(o) == IF ~Exited(o) THEN 0 ELSE o.code

Success(o, codes) == Exited(o) /\ ExitCode(o) \in codes

\* The steps of an execution that call Process.Run, and the
\* ExpectedSuccessCodes each passes (terraform.Session.Init, Detach, Plan, Apply).
RunSteps == {"init", "detach", "plan", "apply"}

ExpectedSuccessCodes(step) == IF step = "plan" THEN {0, 2} ELSE {0}

(***************************************************************************)
(* The executions of the operation and the results channel.                *)
(***************************************************************************)
\* The bound executions the operation works on: applyWithGraph is reached
\* with no module names and takes every execution of the project; plan and
\* the flat apply take the executions of the named modules.  In SpecRun the
\* goroutines that call Process.Run take their place.
Bound ==
    CASE op \in {"plan", "apply"} -> Execs \cap (1 .. NumNamed)
      [] op = "run" -> Execs \cap (1 .. NumWorkers)
      [] OTHER -> Execs

NumBound == Cardinality(Bound)

\* A results channel with room for one Result less.
ResultsCapOneLess == NumBound - 1

\* make(chan *Result, numberOfExecutions)
ResultsCap == NumBound

RECURSIVE SumLen(_, _)
SumLen(f, S) == IF S = {} THEN 0
                ELSE LET x == CHOOSE y \in S : TRUE
                     IN  Len(f[x]) + SumLen(f, S \ {x})

ChanLen == SumLen(results, Execs)

\* make(chan string, numberOfExecutions*10)
statusCap == NumBound * 10

\* status <- fmt.Sprintf(...): the send proceeds when the channel is not
\* full.  A caller that receives from status takes the lines out as they
\* come, so that the channel is never full for long; a caller that does not
\* leaves them in the channel.
statusSend ==
    IF consumed THEN status' = status
    ELSE status < statusCap /\ status' = status + 1

\* An ID that reads the loop variable of "for _, e := range boundExecutions"
\* instead of the copy b.
IDOfLoopVariable(e) == NumBound

\* b.ID(): the closure captures b, the per-iteration copy of the loop variable.
ID(e) == e

\* e.ModuleConfig().Hooks.PreModuleRun in Session.plan reads the loop variable
\* e of "for _, e := range boundExecutions", which every closure shares; the
\* loop has ended when the closures run, so e is the last bound execution.
\* applyWithGraph reads b; Session.apply runs no hooks.
HooksOf(e) ==
    CASE op = "plan" -> hooks[NumBound]
      [] op = "applyWithGraph" -> hooks[e]
      [] OTHER -> 0

\* Number of fns of Parallel that have been started and have not returned
\* (the WaitGroup counter).
WaitGroup == Cardinality({e \in Execs : pc[e] \notin {"idle", "done", "skipped"}})

(***************************************************************************)
(* The end of an execution's closure.                                      *)
(***************************************************************************)
\* results <- &Result{id: b.ID(), err: err}; return.  Under Parallel the
\* goroutine then releases its guard token and the WaitGroup; under
\* graph.Walk the walker records the callback's error and closes the
\* vertex's done channel.
Finish(e, err) ==
    /\ ChanLen < ResultsCap
    /\ results' = [results EXCEPT ![ID(e)] = Append(@, err)]
    /\ lateSends' = IF closed > 0 THEN lateSends + 1 ELSE lateSends
    /\ pc' = [pc EXCEPT ![e] = "done"]
    /\ IF op = "applyWithGraph"
         THEN /\ vstate' = [vstate EXCEPT ![e] = IF err THEN "err" ELSE "ok"]
              /\ guard' = guard
         ELSE /\ vstate' = vstate
              /\ guard' = guard - 1

Advance(e, step) ==
    /\ pc' = [pc EXCEPT ![e] = step]
    /\ UNCHANGED <<results, lateSends, vstate, guard>>

\* What the closure does with the error of the step at pc[e].
StepReturn(e, err) ==
    IF err THEN Finish(e, TRUE)
    ELSE CASE pc[e] = "init" ->
                Advance(e, IF op = "plan"
                             THEN (IF detach THEN "detach" ELSE "plan")
                             ELSE "apply")
           [] pc[e] = "detach" -> Advance(e, "plan")
           [] OTHER -> Finish(e, FALSE)

(***************************************************************************)
(* exec2.Process.Run (process.go:108-168).                                 *)
(***************************************************************************)
\* The observation variables arrived, forwarded, runs and ret record what the
\* calls of Run did; they are kept for the runner on its own (op = "run").
Observed == op = "run"

\* What a Run returned: how it ended ("interrupted": the isInterrupted test;
\* "startfail": execCmd.Start failed; "waited": the child was waited for),
\* whether the child exited by itself, whether its exit status is one of the
\* ExpectedSuccessCodes, whether a signal was received while waiting, and
\* whether the error returned is non-nil.
NoRet == [kind |-> "none", exited |-> FALSE, expected |-> FALSE, sig |-> FALSE, err |-> FALSE]

\* Run returns err to its caller.  In SpecRun the caller is a goroutine that
\* records the return; in a session operation it is the step of the
\* execution's closure.
Return(e, kind, o, err) ==
    IF Observed
      THEN /\ ret' = [ret EXCEPT ![e] =
                        [kind |-> kind,
                         exited |-> o.exited,
                         expected |-> o.exited /\ o.code \in ExpectedSuccessCodes(pc[e]),
                         sig |-> errors[e] /\ kind = "waited",
                         err |-> err]]
           /\ pc' = [pc EXCEPT ![e] = "idle"]
           /\ UNCHANGED <<results, lateSends, vstate, guard>>
      ELSE /\ StepReturn(e, err)
           /\ UNCHANGED ret

\* A goroutine of SpecRun calls Process.Run with the success codes of Init
\* ({0}) or of Plan ({0, 2}).
Call(e) ==
    /\ op = "run"
    /\ e \in Bound
    /\ pc[e] = "idle"
    /\ runs < MaxRuns
    /\ runs' = runs + 1
    /\ \E s \in {"init", "plan"} : pc' = [pc EXCEPT ![e] = s]
    /\ ret' = [ret EXCEPT ![e] = NoRet]
    /\ UNCHANGED <<confVars, hookIdx, results, closed, status, vstate, parVars, runVars>>
    /\ UNCHANGED <<arrived, forwarded, histVars, tvmVars, toolVars>>

\* Lines 112-142: the isInterrupted test, execCmd.Start(), signal.Notify.
RunBegin(e) ==
    /\ pc[e] \in RunSteps
    /\ child[e] = "none"
    /\ IF isInterrupted
         THEN /\ Return(e, "interrupted", NoOutcome, TRUE)
              /\ UNCHANGED <<runVars, spawned>>
         ELSE \/ /\ child' = [child EXCEPT ![e] = "running"]
                 /\ sigChan' = [sigChan EXCEPT ![e] = 0]
                 /\ errors' = [errors EXCEPT ![e] = FALSE]
                 /\ notified' = TRUE
                 /\ spawned' = [spawned EXCEPT ![e] = TRUE]
                 /\ UNCHANGED <<isInterrupted, signals, pc, results, lateSends,
                                vstate, guard, ret>>
              \/ /\ Return(e, "startfail", NoOutcome, TRUE)
                 /\ UNCHANGED <<runVars, spawned>>
    /\ IF Observed THEN UNCHANGED status ELSE statusSend
    /\ UNCHANGED <<confVars, hookIdx, closed, ownerPc, parNext, isShutDown, signalCh, notices>>
    /\ UNCHANGED <<arrived, forwarded, runs, tvmVars, toolVars>>

\* Lines 147-154: case sig := <-sigChan.
RunSignal(e) ==
    /\ child[e] = "running"
    /\ sigChan[e] > 0
    /\ sigChan' = [sigChan EXCEPT ![e] = @ - 1]
    /\ isInterrupted' = TRUE
    /\ errors' = [errors EXCEPT ![e] = TRUE]
    /\ forwarded' = IF Observed THEN [forwarded EXCEPT ![e] = @ + 1] ELSE forwarded
    /\ UNCHANGED <<child, notified, signals, arrived, runs, ret>>
    /\ UNCHANGED <<confVars, sessVars, parVars, histVars, tvmVars, toolVars>>

\* A Run that returns no error for a signal it received while waiting.
RunErrorExitOnly(o, codes, sigErrors) == ~Success(o, codes)

\* The error Run returns once the child has exited (lines 155-164).
RunError(o, codes, sigErrors) == ~Success(o, codes) \/ sigErrors

\* Lines 155-164: case err := <-waitCh.
RunExit(e) ==
    /\ child[e] = "running"
    /\ \E o \in Outcomes :
         Return(e, "waited", o, RunError(o, ExpectedSuccessCodes(pc[e]), errors[e]))
    /\ child' = [child EXCEPT ![e] = "none"]
    /\ sigChan' = [sigChan EXCEPT ![e] = 0]
    /\ errors' = [errors EXCEPT ![e] = FALSE]
    /\ arrived' = [arrived EXCEPT ![e] = 0]
    /\ forwarded' = [forwarded EXCEPT ![e] = 0]
    /\ UNCHANGED <<isInterrupted, notified, signals, runs>>
    /\ UNCHANGED <<confVars, hookIdx, closed, status, ownerPc, parNext, isShutDown, signalCh, notices>>
    /\ UNCHANGED <<spawned, tvmVars, toolVars>>

\* A SIGINT or SIGTERM reaches the astro process.  The Go runtime puts it,
\* without blocking, in every channel given to signal.Notify: the sigChan of
\* every Run that is waiting and Parallel's signalCh; a channel that is full
\* does not get it.  (Before the first signal.Notify the signal ends the
\* process.)
Interrupt ==
    /\ notified
    /\ signals < MaxSignals
    /\ ownerPc # "done"
    /\ signals' = signals + 1
    /\ sigChan' = [e \in Execs |-> IF child[e] = "running" THEN 1 ELSE sigChan[e]]
    /\ arrived' = [e \in Execs |-> IF Observed /\ child[e] = "running"
                                     THEN arrived[e] + 1 ELSE arrived[e]]
    /\ signalCh' = IF op \in {"plan", "apply", "Parallel"} THEN 1 ELSE signalCh
    /\ UNCHANGED <<child, errors, isInterrupted, notified, forwarded, runs, ret>>
    /\ UNCHANGED <<confVars, sessVars, ownerPc, parNext, guard, isShutDown, notices>>
    /\ UNCHANGED <<histVars, tvmVars, toolVars>>

(***************************************************************************)
(* executionSet.graph and addRoot (execution_set.go, graph.go).            *)
(***************************************************************************)
\* filterByModule: the executions of the set whose module is named name.
filterByModule(s, name) == {e \in s : e = name}

\* filterByDep for a dependency without variables: every execution of the
\* module; an error ("missing dependency") when there is none.
filterByDep(s, dep) == filterByModule(s, dep)

filterByDepErr(s, dep) == filterByModule(s, dep) = {}

\* graph(): the error it returns ...
graphErr(s, d) == \E e \in s : \E dep \in d[e] : filterByDepErr(s, dep)

\* ... and the edges it connects: e -> every execution matching a dependency of e.
graphEdges(s, d) == [e \in s |-> UNION {filterByDep(s, dep) : dep \in d[e]}]

\* addRoot: g.UpEdges(v).Len() == 0, no edge ends in v.
UpEdgesEmpty(s, edges, v) == \A e \in s : v \notin edges[e]

\* addRoot: the vertices the synthetic root is connected to (none when the
\* graph already has exactly one root, g.Root() succeeding).
addRoot(s, edges) ==
    LET tops == {v \in s : UpEdgesEmpty(s, edges, v)}
    IN  IF Cardinality(tops) = 1 THEN {} ELSE tops

\* NewProject (astro.go:70-73): the check of the dependency graph.
NewProject(d) == IF graphErr(Execs, d) THEN "error" ELSE "ok"

\* The edges applyWithGraph walks (sessions.go:161).
Edges == graphEdges(Execs, deps)

\* Vertices reachable from e along one or more edges.
RECURSIVE ReachN(_, _, _)
ReachN(edges, S, n) ==
    IF n = 0 THEN S
    ELSE ReachN(edges, S \cup UNION {edges[x] : x \in S}, n - 1)

Reach(edges, e) == ReachN(edges, edges[e], NumExecs)

Cyclic(edges) == \E e \in DOMAIN edges : e \in Reach(edges, e)

(***************************************************************************)
(* The closures of Session.plan, Session.apply and Session.applyWithGraph. *)
(***************************************************************************)
\* s.newTerraformSession(b)
NewSession(e) ==
    /\ pc[e] = "session"
    /\ \/ Advance(e, IF HooksOf(e) > 0 THEN "hooks" ELSE "init")
       \/ Finish(e, TRUE)
    /\ UNCHANGED <<confVars, hookIdx, closed, status, ownerPc, parNext, isShutDown, signalCh, notices>>
    /\ UNCHANGED <<runVars, obsVars, spawned, tvmVars, toolVars>>

\* One iteration of "for _, hook := range ...Hooks.PreModuleRun": the hook's
\* command is run and succeeds or fails.
RunHook(e) ==
    /\ pc[e] = "hooks"
    /\ statusSend
    /\ spawned' = [spawned EXCEPT ![e] = TRUE]
    /\ \/ /\ hookIdx' = [hookIdx EXCEPT ![e] = @ + 1]
          /\ Advance(e, IF hookIdx[e] + 1 < HooksOf(e) THEN "hooks" ELSE "init")
       \/ /\ Finish(e, TRUE)
          /\ UNCHANGED hookIdx
    /\ UNCHANGED <<confVars, closed, ownerPc, parNext, isShutDown, signalCh, notices>>
    /\ UNCHANGED <<runVars, obsVars, tvmVars, toolVars>>

(***************************************************************************)
(* utils.Parallel (parallel.go:74-104) and the goroutine of plan and apply *)
(* that calls it and closes results.                                       *)
(***************************************************************************)
\* A guard channel on which a send never blocks.
guardUnbounded == TRUE

\* guard := make(chan struct{}, maxConcurrent): the send guard <- struct{}{}
\* proceeds when the channel is not full.
guardSend == guard < maxConcurrent

\* guard <- struct{}{}; isShutDown is false: wg.Add(1); go func(fn) {...}(fn)
ParLaunch ==
    /\ ownerPc = "loop"
    /\ parNext <= NumBound
    /\ guardSend
    /\ ~isShutDown
    /\ guard' = guard + 1
    /\ pc' = [pc EXCEPT ![parNext] = IF op = "Parallel" THEN "fn" ELSE "session"]
    /\ parNext' = parNext + 1
    /\ UNCHANGED <<confVars, hookIdx, results, closed, status, vstate>>
    /\ UNCHANGED <<ownerPc, isShutDown, signalCh, notices, runVars, obsVars, histVars, tvmVars, toolVars>>

\* guard <- struct{}{}; isShutDown is true: break
ParBreak ==
    /\ ownerPc = "loop"
    /\ parNext <= NumBound
    /\ guardSend
    /\ isShutDown
    /\ guard' = guard + 1
    /\ ownerPc' = "wait"
    /\ UNCHANGED <<confVars, sessVars, parNext, isShutDown, signalCh, notices>>
    /\ UNCHANGED <<runVars, obsVars, histVars, tvmVars, toolVars>>

\* A wg.Wait() that does not wait.
ParNotWaited == TRUE

\* wg.Wait() returns
ParWaited == WaitGroup = 0

\* The loop is over, wg.Wait() returns, Parallel returns and the deferred
\* close(results) runs.
ParReturn ==
    /\ \/ ownerPc = "loop" /\ parNext > NumBound
       \/ ownerPc = "wait"
    /\ ParWaited
    /\ ownerPc' = "done"
    /\ closed' = closed + 1
    /\ UNCHANGED <<confVars, pc, hookIdx, results, status, vstate>>
    /\ UNCHANGED <<parNext, guard, isShutDown, signalCh, notices>>
    /\ UNCHANGED <<runVars, obsVars, histVars, tvmVars, toolVars>>

\* A fn of Parallel that is not a closure of a session (SpecPar) returns:
\* fn(); <-guard; wg.Done().
FnReturn(e) ==
    /\ pc[e] = "fn"
    /\ pc' = [pc EXCEPT ![e] = "done"]
    /\ guard' = guard - 1
    /\ UNCHANGED <<confVars, hookIdx, results, closed, status, vstate>>
    /\ UNCHANGED <<ownerPc, parNext, isShutDown, signalCh, notices>>
    /\ UNCHANGED <<runVars, obsVars, histVars, tvmVars, toolVars>>

\* The goroutine of Parallel that receives from signalCh.
ParHandler ==
    /\ signalCh > 0
    /\ ~isShutDown
    /\ signalCh' = signalCh - 1
    /\ isShutDown' = TRUE
    /\ notices' = notices + 1
    /\ UNCHANGED <<confVars, sessVars, ownerPc, parNext, guard>>
    /\ UNCHANGED <<runVars, obsVars, histVars, tvmVars, toolVars>>

(***************************************************************************)
(* dag.AcyclicGraph.Walk as applyWithGraph calls it: every vertex has a    *)
(* goroutine that waits until all the targets of its edges are done, then  *)
(* runs the callback if none of them has an error recorded and is marked   *)
(* with an upstream error otherwise; Walk returns when all are done.       *)
(***************************************************************************)
DepsDone(e) == \A d \in Edges[e] : vstate[d] # "pending"

\* A walker that runs the callback of a vertex whose dependencies are done,
\* with or without an error.
DepsOkOrFailed(e) == \A d \in Edges[e] : vstate[d] # "pending"

DepsOk(e) == \A d \in Edges[e] : vstate[d] = "ok"

WalkVertex(e) ==
    /\ ownerPc = "walk"
    /\ pc[e] = "idle"
    /\ DepsDone(e)
    /\ IF DepsOk(e)
         THEN /\ pc' = [pc EXCEPT ![e] = "session"]
              /\ UNCHANGED vstate
         ELSE /\ pc' = [pc EXCEPT ![e] = "skipped"]
              /\ vstate' = [vstate EXCEPT ![e] = "upstream"]
    /\ UNCHANGED <<confVars, hookIdx, results, closed, status, parVars>>
    /\ UNCHANGED <<runVars, obsVars, histVars, tvmVars, toolVars>>

\* A Walk that returns while vertices are pending.
WalkedEarly == TRUE

\* graph.Walk returns
Walked == \A e \in Execs : vstate[e] # "pending"

\* graph.Walk returns and the deferred close(results) runs.
WalkReturn ==
    /\ ownerPc = "walk"
    /\ Walked
    /\ ownerPc' = "done"
    /\ closed' = closed + 1
    /\ UNCHANGED <<confVars, pc, hookIdx, results, status, vstate>>
    /\ UNCHANGED <<parNext, guard, isShutDown, signalCh, notices>>
    /\ UNCHANGED <<runVars, obsVars, histVars, tvmVars, toolVars>>

(***************************************************************************)
(* tvm.VersionRepo: Get, download (versionrepo.go) and unzip.              *)
(***************************************************************************)
NoGot == [kind |-> "none", seen |-> "none"]

\* A utils.FileExists that finds no file.
FileExistsNever(v) == FALSE

\* utils.FileExists(r.terraformPath(version)): a file is there, whatever
\* has been written to it so far.
FileExists(v) == file[v] # "missing"

\* exists(version) (lines 130-132): the same test of the same path, as
\* download makes it after unzip.
exists(v) == file[v] # "missing"

\* Get or download returns the path of the binary to g; seen is the state of
\* the file at that moment.
ReturnPath(g, v) == got' = [got EXCEPT ![g] = [kind |-> "path", seen |-> file[v]]]

ReturnErr(g) == got' = [got EXCEPT ![g] = [kind |-> "error", seen |-> "none"]]

\* Get (lines 142-148): the path is returned when the file exists,
\* download(version) is called when it does not.
Get(g) ==
    /\ UNCHANGED toolVars
    /\ op = "Get"
    /\ tpc[g] = "idle"
    /\ \E v \in Versions :
         /\ tver' = [tver EXCEPT ![g] = v]
         /\ IF ~FileExists(v)
              THEN /\ tpc' = [tpc EXCEPT ![g] = "lock"]
                   /\ UNCHANGED got
              ELSE /\ tpc' = [tpc EXCEPT ![g] = "done"]
                   /\ ReturnPath(g, v)
    /\ UNCHANGED <<lock, file, downloads>>
    /\ UNCHANGED <<confVars, sessVars, parVars, runVars, obsVars, histVars>>

\* A mutex that Lock() takes whether or not a goroutine holds it.
getLockAlwaysFree(v) == TRUE

\* getLock(version): the one sync.Mutex that downloadLock (a sync.Map) keeps
\* for the version, LoadOrStore being atomic; Lock() returns when no
\* goroutine holds it.
getLock(v) == lock[v] = 0

\* download (lines 94-97): getLock(version) and downloadLock.Lock().
downloadLock(g) ==
    /\ UNCHANGED toolVars
    /\ tpc[g] = "lock"
    /\ getLock(tver[g])
    /\ lock' = [lock EXCEPT ![tver[g]] = g]
    /\ tpc' = [tpc EXCEPT ![g] = "download"]
    /\ UNCHANGED <<tver, file, downloads, got>>
    /\ UNCHANGED <<confVars, sessVars, parVars, runVars, obsVars, histVars>>

\* download (lines 99-111): the zip file is downloaded to a temporary file,
\* or an error is returned (the deferred Unlock runs).
downloadFile(g) ==
    /\ UNCHANGED toolVars
    /\ tpc[g] = "download"
    /\ \/ /\ downloads' = [downloads EXCEPT ![tver[g]] = @ + 1]
          /\ tpc' = [tpc EXCEPT ![g] = "unzip"]
          /\ UNCHANGED <<lock, got>>
       \/ /\ ReturnErr(g)
          /\ tpc' = [tpc EXCEPT ![g] = "done"]
          /\ lock' = [lock EXCEPT ![tver[g]] = 0]
          /\ UNCHANGED downloads
    /\ UNCHANGED <<tver, file>>
    /\ UNCHANGED <<confVars, sessVars, parVars, runVars, obsVars, histVars>>

\* unzip(tmpfile, targetDir) up to os.OpenFile(path, O_WRONLY|O_CREATE|O_TRUNC):
\* the binary is created or truncated at its final path; or the archive has
\* no binary; or an error is returned.
unzipOpen(g) ==
    /\ UNCHANGED toolVars
    /\ tpc[g] = "unzip"
    /\ \/ /\ file' = [file EXCEPT ![tver[g]] = "partial"]
          /\ tpc' = [tpc EXCEPT ![g] = "copy"]
          /\ UNCHANGED <<lock, got>>
       \/ /\ tpc' = [tpc EXCEPT ![g] = "exists"]
          /\ UNCHANGED <<file, lock, got>>
       \/ /\ ReturnErr(g)
          /\ tpc' = [tpc EXCEPT ![g] = "done"]
          /\ lock' = [lock EXCEPT ![tver[g]] = 0]
          /\ UNCHANGED file
    /\ UNCHANGED <<tver, downloads>>
    /\ UNCHANGED <<confVars, sessVars, parVars, runVars, obsVars, histVars>>

\* unzip: io.Copy(out, fh) writes the binary and unzip returns, or it fails
\* and leaves what it wrote.
unzipCopy(g) ==
    /\ UNCHANGED toolVars
    /\ tpc[g] = "copy"
    /\ \/ /\ file' = [file EXCEPT ![tver[g]] = "complete"]
          /\ tpc' = [tpc EXCEPT ![g] = "exists"]
          /\ UNCHANGED <<lock, got>>
       \/ /\ ReturnErr(g)
          /\ tpc' = [tpc EXCEPT ![g] = "done"]
          /\ lock' = [lock EXCEPT ![tver[g]] = 0]
          /\ UNCHANGED file
    /\ UNCHANGED <<tver, downloads>>
    /\ UNCHANGED <<confVars, sessVars, parVars, runVars, obsVars, histVars>>

\* download (lines 120-125): the check that the binary is there, the return
\* and the deferred Unlock.
downloadReturn(g) ==
    /\ UNCHANGED toolVars
    /\ tpc[g] = "exists"
    /\ IF exists(tver[g]) THEN ReturnPath(g, tver[g]) ELSE ReturnErr(g)
    /\ tpc' = [tpc EXCEPT ![g] = "done"]
    /\ lock' = [lock EXCEPT ![tver[g]] = 0]
    /\ UNCHANGED <<tver, file, downloads>>
    /\ UNCHANGED <<confVars, sessVars, parVars, runVars, obsVars, histVars>>

(***************************************************************************)
(* Strings.  A string is the sequence of its characters.                   *)
(***************************************************************************)
\* The characters of the model, in the order of their bytes.
Alphabet ==
    <<" ", "-", "1", "2", "3", "4", "5", "<", ">", "a", "b", "c", "e", "l",
      "m", "n", "o", "u", "v", "x", "y", "{", "}">>

Code(c) == CHOOSE i \in DOMAIN Alphabet : Alphabet[i] = c

\* s < t for Go strings: the comparison of their bytes.
RECURSIVE Less(_, _)
Less(s, t) ==
    IF s = <<>> THEN t # <<>>
    ELSE IF t = <<>> THEN FALSE
    ELSE IF Head(s) = Head(t) THEN Less(Tail(s), Tail(t))
    ELSE Code(Head(s)) < Code(Head(t))

RECURSIVE InsertSorted(_, _)
InsertSorted(x, sorted) ==
    IF sorted = <<>> THEN <<x>>
    ELSE IF Less(x, Head(sorted)) THEN <<x>> \o sorted
    ELSE <<Head(sorted)>> \o InsertSorted(x, Tail(sorted))

\* A sort that leaves the keys in the order they have.
sortStringsNoSort(keys) == keys

\* sort.Strings(keys)
RECURSIVE sortStrings(_)
sortStrings(keys) ==
    IF keys = <<>> THEN <<>>
    ELSE InsertSorted(Head(keys), sortStrings(Tail(keys)))

\* strings.Join(elems, sep)
RECURSIVE stringsJoin(_, _)
stringsJoin(elems, sep) ==
    IF elems = <<>> THEN <<>>
    ELSE IF Len(elems) = 1 THEN elems[1]
    ELSE elems[1] \o sep \o stringsJoin(Tail(elems), sep)

\* strings.ContainsAny(s, chars)
stringsContainsAny(s, chars) == \E i \in DOMAIN s : s[i] \in chars

\* strings.Contains(s, substr)
stringsContains(s, substr) ==
    \E i \in 1 .. (Len(s) - Len(substr) + 1) : SubSeq(s, i, i + Len(substr) - 1) = substr

\* What text/template prints for a key that the data does not have.
NoValue == <<"<", "n", "o", " ", "v", "a", "l", "u", "e", ">">>

\* fmt.Sprintf("{%s}", variable.Name): the placeholder of a variable without
\* predefined values.
Placeholder(name) == <<"{">> \o name \o <<"}">>

(***************************************************************************)
(* Modules with variables: module.executions, cartesian (modules.go,       *)
(* utils.go), execution.ID and unboundExecution.bind.                      *)
(*                                                                         *)
(* A conf.Variable is [Name, nil, Values]: nil says that Values is nil, and*)
(* Values is then empty.  A map[string]string is a function from the keys  *)
(* it has; a nil map is the function without keys.  No string of the model *)
(* has the character "=", at which module.executions splits the pairs      *)
(* "name=value" it builds.                                                 *)
(***************************************************************************)
EmptyMap == <<>>

\* A HasFilter that is true of every name.
HasFilterOfAny(uv, name) == TRUE

\* UserVariables.HasFilter and FilterCount
HasFilter(uv, name) == name \in uv.Filters

FilterCount(uv) == Cardinality(uv.Filters)

\* Variable.IsFilter
IsFilter(variable) == Len(variable.Values) > 0

\* flagsToUserVariables: the user variables the command line makes of the
\* flags that were given a value; a flag with allowed values is a filter.
flagsToUserVariables(values, mods) ==
    [Values |-> values,
     Filters |-> {name \in DOMAIN values :
                    \E i \in DOMAIN mods : \E j \in DOMAIN mods[i].Variables :
                        /\ mods[i].Variables[j].Name = name
                        /\ Len(mods[i].Variables[j].Values) > 0}]

\* cartesian(params...): the combinations of one element of every list, the
\* first list varying slowest.  (With at most three lists every append of
\* the function allocates, so that no two results share an array.)
RECURSIVE cartesian(_)
cartesian(params) ==
    IF params = <<>> THEN << <<>> >>
    ELSE LET rest == cartesian(Tail(params))
             p == Head(params)
             n == Len(rest)
         IN  [k \in 1 .. (Len(p) * n) |->
                <<p[((k - 1) \div n) + 1]>> \o rest[((k - 1) % n) + 1]]

\* The list v that module.executions builds for a variable (lines 64-80):
\* the pairs of the variable's name and each value that the user's filter
\* leaves, or the placeholder when Values is nil.
variableValues(variable, uv) ==
    LET filtered == IsFilter(variable) /\ variable.Name \in DOMAIN uv.Values
        kept(value) == ~filtered \/ value = uv.Values[variable.Name]
    IN  IF ~variable.nil
          THEN LET vs == SelectSeq(variable.Values, kept)
               IN  [i \in DOMAIN vs |-> <<variable.Name, vs[i]>>]
          ELSE << <<variable.Name, Placeholder(variable.Name)>> >>

\* e.variables[s[0]] = s[1] for every pair of a product (lines 95-99).
productVariables(p) ==
    [name \in {p[i][1] : i \in DOMAIN p} |->
        LET last == CHOOSE i \in DOMAIN p :
                       /\ p[i][1] = name
                       /\ \A j \in DOMAIN p : p[j][1] = name => j <= i
        IN  p[last][2]]

\* module.executions(parameters) (modules.go:38-105)
executions(m, uv) ==
    LET filterCount == Cardinality({j \in DOMAIN m.Variables : HasFilter(uv, m.Variables[j].Name)})
        products == cartesian([j \in DOMAIN m.Variables |-> variableValues(m.Variables[j], uv)])
    IN  IF filterCount # FilterCount(uv) THEN <<>>
        ELSE IF Len(m.Variables) < 1
          THEN <<[moduleConf |-> m, variables |-> EmptyMap]>>
        ELSE [k \in DOMAIN products |->
                [moduleConf |-> m, variables |-> productVariables(products[k])]]

\* Project.modules(moduleNames) (astro.go:104-115): the modules of the
\* configuration, without those that a non-nil moduleNames does not contain.
projectModules(mods, names) ==
    SelectSeq(mods, LAMBDA m : ~(~names.nil /\ m.Name \notin names.names))

\* Project.executions (astro.go:94-101): the executions of every module.
RECURSIVE projectExecutions(_, _)
projectExecutions(mods, uv) ==
    IF mods = <<>> THEN <<>>
    ELSE executions(Head(mods), uv) \o projectExecutions(Tail(mods), uv)

\* A map lookup m[key]: the empty string for a key the map does not have.
MapGet(m, key) == IF key \in DOMAIN m THEN m[key] ELSE <<>>

\* execution.ID (lines 198-226)
executionID(e) ==
    LET keys == sortStrings([j \in DOMAIN e.moduleConf.Variables |-> e.moduleConf.Variables[j].Name])
        values == [j \in DOMAIN keys |-> MapGet(e.variables, keys[j])]
    IN  IF Len(values) > 0
          THEN e.moduleConf.Name \o <<"-">> \o stringsJoin(values, <<"-">>)
          ELSE e.moduleConf.Name

\* union(e.Variables(), userVars): the values of the second map replace
\* those of the first.
union(a, b) ==
    [key \in (DOMAIN a) \cup (DOMAIN b) |-> IF key \in DOMAIN b THEN b[key] ELSE a[key]]

\* assertAllVarsReplaced(s): the error is non-nil
assertAllVarsReplaced(s) ==
    stringsContainsAny(s, {"{", "}"}) \/ stringsContains(s, NoValue)

\* extractMissingVarNames(s): the submatches of \{(.*)\} in s.  The first
\* match starts at the first "{" that has a "}" after it and, .* being
\* greedy, ends at the last "}" of s; nothing after it can match.
extractMissingVarNames(s) ==
    LET opens == {i \in DOMAIN s : s[i] = "{" /\ \E j \in DOMAIN s : j > i /\ s[j] = "}"}
    IN  IF opens = {} THEN {}
        ELSE LET i == CHOOSE x \in opens : \A y \in opens : x <= y
                 j == CHOOSE x \in DOMAIN s : s[x] = "}" /\ \A y \in DOMAIN s : s[y] = "}" => y <= x
             IN  {SubSeq(s, i + 1, j - 1)}

\* replaceVars(s, data) for a value of the backend configuration: a value is
\* [ref, s], the template {{.s}} when ref is true and the text s otherwise.
replaceVars(val, data) ==
    IF val.ref THEN (IF val.s \in DOMAIN data THEN data[val.s] ELSE NoValue)
    ELSE val.s

\* replaceAllVarsInMapValues(inputMap, data): the error is non-nil
replaceAllVarsInMapValuesErr(inputMap, data) ==
    \E key \in DOMAIN inputMap : assertAllVarsReplaced(replaceVars(inputMap[key], data))

\* unboundExecution.bind(userVars) (lines 256-292).  missing is the set of
\* the names in MissingRequiredVarsError.missing (their order is that of the
\* iteration over the map boundVars).
bind(e, uvValues) ==
    LET boundVars == union(e.variables, uvValues)
        missingVars == UNION {extractMissingVarNames(boundVars[key]) :
                                key \in {k \in DOMAIN boundVars : assertAllVarsReplaced(boundVars[k])}}
    IN  IF missingVars # {}
          THEN [err |-> "MissingRequiredVars", missing |-> missingVars, of |-> e,
                variables |-> EmptyMap]
        ELSE IF replaceAllVarsInMapValuesErr(e.moduleConf.BackendConfig, boundVars)
          THEN [err |-> "unable to bind", missing |-> {}, of |-> e, variables |-> EmptyMap]
        ELSE [err |-> "nil", missing |-> {}, of |-> e, variables |-> boundVars]

(***************************************************************************)
(* Initial states.                                                         *)
(***************************************************************************)
InitRun ==
    /\ child = [e \in Execs |-> "none"]
    /\ sigChan = [e \in Execs |-> 0]
    /\ errors = [e \in Execs |-> FALSE]
    /\ isInterrupted = FALSE
    /\ signals = 0
    /\ arrived = [e \in Execs |-> 0]
    /\ forwarded = [e \in Execs |-> 0]
    /\ runs = 0
    /\ ret = [e \in Execs |-> NoRet]
    /\ spawned = [e \in Execs |-> FALSE]

InitSession ==
    /\ pc = [e \in Execs |-> "idle"]
    /\ hookIdx = [e \in Execs |-> 0]
    /\ results = [e \in Execs |-> <<>>]
    /\ closed = 0
    /\ status = 0
    /\ lateSends = 0
    /\ vstate = [e \in Execs |-> "pending"]
    /\ parNext = 1
    /\ guard = 0
    /\ isShutDown = FALSE
    /\ signalCh = 0
    /\ notices = 0

InitTvm ==
    /\ tpc = [g \in Getters |-> "idle"]
    /\ tver = [g \in Getters |-> 0]
    /\ lock = [v \in Versions |-> 0]
    /\ downloads = [v \in Versions |-> 0]
    /\ got = [g \in Getters |-> NoGot]

\* No Terraform session has a directory, no method of a terraform.Session
\* has been called, nothing is extracted and no hook has run.
InitTool ==
    /\ sessionDirs = {}
    /\ tool = <<>>
    /\ zip = <<>>
    /\ env = <<>>
    /\ display = <<>>
    /\ inherit = <<>>
    /\ sandbox = <<>>

NoDeps == [e \in Execs |-> {}]

\* UserVariables{}: no values and no filters.
NoUserVariables == [Values |-> EmptyMap, Filters |-> {}]

\* The specifications of the operations of a session take the executions as
\* they are bound; they leave the modules' variables out.
\* ExecutionParameters.ModuleNames is nil: no filter on the names of modules.
NilModuleNames == [nil |-> TRUE, names |-> {}]

InitBind ==
    /\ modules = <<>>
    /\ userVars = NoUserVariables
    /\ moduleNames = NilModuleNames
    /\ unbound = <<>>
    /\ binds = <<>>
    /\ planRet = "none"

NoHooks == [e \in Execs |-> 0]

(***************************************************************************)
(* Spec: one operation of a Session on the executions of a project that    *)
(* NewProject accepted.                                                    *)
(***************************************************************************)
\* The dependency configurations of the session specification: module 1 may
\* depend on the last module (a cycle when the last depends on it), module 2
\* may depend on module 1, the modules between 2 and the last depend on the
\* one before them, and the last module may depend on the one before it and
\* on the first.
SessionDeps ==
    {d \in [Execs -> SUBSET Execs] :
        /\ d[1] \subseteq {NumExecs}
        /\ d[2] \subseteq {1}
        /\ \A m \in Execs \ {1, 2, NumExecs} : d[m] = {m - 1}
        /\ d[NumExecs] \subseteq {NumExecs - 1, 1}}

\* Only the first module has PreModuleRun hooks or, for plan, every module
\* but the first.
HookConfigs ==
    {[e \in Execs |-> IF e = 1 THEN MaxHooks ELSE 0]}
    \cup (IF op = "plan" THEN {[e \in Execs |-> IF e = 1 THEN 0 ELSE MaxHooks]} ELSE {})

Init ==
    /\ op \in {"plan", "apply", "applyWithGraph"}
    /\ maxConcurrent = ParallelLimit
    /\ detach \in (IF op = "plan" THEN BOOLEAN ELSE {FALSE})
    /\ consumed = TRUE
    /\ deps \in (IF op = "applyWithGraph" THEN SessionDeps ELSE {NoDeps})
    /\ project = NewProject(deps)
    /\ project = "ok"
    /\ hooks \in (IF op = "apply" THEN {NoHooks} ELSE HookConfigs)
    /\ ownerPc = IF op = "applyWithGraph" THEN "walk" ELSE "loop"
    /\ notified = (op # "applyWithGraph")
    /\ InitSession
    /\ InitRun
    /\ InitBind
    /\ InitTvm
    /\ InitTool
    /\ file = [v \in Versions |-> "missing"]

Next ==
    \/ ParLaunch
    \/ ParBreak
    \/ ParReturn
    \/ ParHandler
    \/ WalkReturn
    \/ Interrupt
    \/ \E e \in Execs :
         \/ WalkVertex(e)
         \/ NewSession(e)
         \/ RunHook(e)
         \/ RunBegin(e)
         \/ RunSignal(e)
         \/ RunExit(e)

Spec == Init /\ [][Next]_vars

(***************************************************************************)
(* SpecRun: goroutines that call Process.Run, one call after another.      *)
(***************************************************************************)
InitSpecRun ==
    /\ op = "run"
    /\ maxConcurrent = ParallelLimit
    /\ detach = FALSE
    /\ consumed = TRUE
    /\ deps = NoDeps
    /\ project = "none"
    /\ hooks = NoHooks
    /\ ownerPc = "off"
    /\ notified = FALSE
    /\ InitSession
    /\ InitRun
    /\ InitBind
    /\ InitTvm
    /\ InitTool
    /\ file = [v \in Versions |-> "missing"]

NextRun ==
    \/ Interrupt
    \/ \E e \in Execs :
         \/ Call(e)
         \/ RunBegin(e)
         \/ RunSignal(e)
         \/ RunExit(e)

SpecRun == InitSpecRun /\ [][NextRun]_vars

(***************************************************************************)
(* SpecProject: NewProject on a configuration, then Project.Apply without  *)
(* module names.                                                           *)
(***************************************************************************)
\* The configurations: every module names at most MaxDeps modules as its
\* dependencies, among the modules of the project and a name that is not one.
ProjectDeps ==
    [Execs -> {S \in SUBSET (Execs \cup {Missing}) : Cardinality(S) <= MaxDeps}]

InitProject ==
    /\ op = "NewProject"
    /\ maxConcurrent = ParallelLimit
    /\ detach = FALSE
    /\ consumed = TRUE
    /\ deps \in ProjectDeps
    /\ project = "none"
    /\ hooks = NoHooks
    /\ ownerPc = "off"
    /\ notified = FALSE
    /\ InitSession
    /\ InitRun
    /\ InitBind
    /\ InitTvm
    /\ InitTool
    /\ file = [v \in Versions |-> "missing"]

\* NewProject(conf) returns the project or an error.
NewProjectCall ==
    /\ op = "NewProject"
    /\ project = "none"
    /\ project' = NewProject(deps)
    /\ UNCHANGED <<op, maxConcurrent, detach, consumed, deps, hooks, bindVars>>
    /\ UNCHANGED <<sessVars, parVars, runVars, obsVars, histVars, tvmVars, toolVars>>

\* Project.Apply with ModuleNames nil: session.applyWithGraph starts the walk
\* of executions.graph().
Apply ==
    /\ op = "NewProject"
    /\ project = "ok"
    /\ op' = "applyWithGraph"
    /\ ownerPc' = "walk"
    /\ UNCHANGED <<maxConcurrent, detach, consumed, deps, project, hooks, bindVars>>
    /\ UNCHANGED <<sessVars, parNext, guard, isShutDown, signalCh, notices>>
    /\ UNCHANGED <<runVars, obsVars, histVars, tvmVars, toolVars>>

NextProject ==
    \/ NewProjectCall
    \/ Apply

SpecProject == InitProject /\ [][NextProject]_vars

(***************************************************************************)
(* SpecTvm: goroutines that call VersionRepo.Get on one repository.        *)
(***************************************************************************)
InitSpecTvm ==
    /\ op = "Get"
    /\ maxConcurrent = ParallelLimit
    /\ detach = FALSE
    /\ consumed = TRUE
    /\ deps = NoDeps
    /\ project = "none"
    /\ hooks = NoHooks
    /\ ownerPc = "off"
    /\ notified = FALSE
    /\ InitSession
    /\ InitRun
    /\ InitBind
    /\ InitTvm
    /\ InitTool
    /\ file \in [Versions -> {"missing", "complete"}]

NextTvm ==
    \E g \in Getters :
        \/ Get(g)
        \/ downloadLock(g)
        \/ downloadFile(g)
        \/ unzipOpen(g)
        \/ unzipCopy(g)
        \/ downloadReturn(g)

SpecTvm == InitSpecTvm /\ [][NextTvm]_vars

(***************************************************************************)
(* SpecPar: utils.Parallel(maxConcurrent, fns...) on NumExecs fns, with    *)
(* signals arriving at any time.                                           *)
(***************************************************************************)
InitSpecPar ==
    /\ op = "Parallel"
    /\ maxConcurrent \in 1 .. MaxConcurrent
    /\ detach = FALSE
    /\ consumed = TRUE
    /\ deps = NoDeps
    /\ project = "none"
    /\ hooks = NoHooks
    /\ ownerPc = "loop"
    /\ notified = TRUE
    /\ InitSession
    /\ InitRun
    /\ InitBind
    /\ InitTvm
    /\ InitTool
    /\ file = [v \in Versions |-> "missing"]

NextPar ==
    \/ ParLaunch
    \/ ParBreak
    \/ ParReturn
    \/ ParHandler
    \/ Interrupt
    \/ \E e \in Execs : FnReturn(e)

SpecPar == InitSpecPar /\ [][NextPar]_vars

(***************************************************************************)
(* SpecStatus: Session.plan for a caller that receives from the results    *)
(* channel only, never from the status channel, and without signals.       *)
(***************************************************************************)
InitSpecStatus ==
    /\ op = "plan"
    /\ maxConcurrent = ParallelLimit
    /\ detach \in BOOLEAN
    /\ consumed = FALSE
    /\ deps = NoDeps
    /\ project = "ok"
    /\ hooks \in {[e \in Execs |-> h] : h \in 0 .. MaxStatusHooks}
    /\ ownerPc = "loop"
    /\ notified = TRUE
    /\ InitSession
    /\ InitRun
    /\ InitBind
    /\ InitTvm
    /\ InitTool
    /\ file = [v \in Versions |-> "missing"]

NextStatus ==
    \/ ParLaunch
    \/ ParReturn
    \/ \E e \in Execs :
         \/ NewSession(e)
         \/ RunHook(e)
         \/ RunBegin(e)
         \/ RunExit(e)

SpecStatus == InitSpecStatus /\ [][NextStatus]_vars

(***************************************************************************)
(* SpecBind: Project.Plan or Project.Apply on a project of one module with *)
(* variables, up to the start of the session's operation: the executions   *)
(* of the module, the loop of bindAll, and the return.                     *)
(***************************************************************************)
\* The names of variables, the values a configuration gives them and the
\* values a user gives them.
VarNames == {<<"a">>, <<"b">>}

ValueStrings == {<<"x">>, <<"y">>, <<"x", "-", "y">>, <<"y", "-", "y">>}

UserStrings == {<<"x">>, <<"{", "y", "}">>}

Injective(f) == \A i \in DOMAIN f : \A j \in DOMAIN f : f[i] = f[j] => i = j

\* Variable.Values: nil, or a list of at most MaxValues different values.
VariablesNamed(name) ==
    {[Name |-> name, nil |-> TRUE, Values |-> <<>>]}
    \cup {[Name |-> name, nil |-> FALSE, Values |-> vs] :
            vs \in {l \in UNION {[1 .. n -> ValueStrings] : n \in 0 .. MaxValues} : Injective(l)}}

\* Module.Variables: at most MaxVars variables of different names.
VariableLists ==
    {vl \in UNION {[1 .. n -> UNION {VariablesNamed(name) : name \in VarNames}] : n \in 0 .. MaxVars} :
        \A i \in DOMAIN vl : \A j \in DOMAIN vl : vl[i].Name = vl[j].Name => i = j}

\* Module.Remote.BackendConfig: empty, or one key whose value is the
\* template {{.name}} of a variable name.
BackendConfigs ==
    {EmptyMap} \cup {[key \in {<<"c">>} |-> [ref |-> TRUE, s |-> name]] : name \in VarNames}

ModuleConfs(name) ==
    {[Name |-> name, Variables |-> vl, Deps |-> <<>>, BackendConfig |-> bc] :
        vl \in VariableLists, bc \in BackendConfigs}

\* The values given on the command line: a non-empty value for some names.
UserValues == UNION {[names -> UserStrings] : names \in SUBSET VarNames}

InitSpecBind ==
    /\ op \in {"Plan", "Apply"}
    /\ maxConcurrent = ParallelLimit
    /\ detach = FALSE
    /\ consumed = TRUE
    /\ deps = NoDeps
    /\ project = "ok"
    /\ hooks = NoHooks
    /\ modules \in {<<m>> : m \in ModuleConfs(<<"m">>)}
    /\ userVars \in {flagsToUserVariables(values, modules) : values \in UserValues}
    /\ moduleNames = NilModuleNames
    /\ unbound = <<>>
    /\ binds = <<>>
    /\ planRet = "none"
    /\ ownerPc = "off"
    /\ notified = FALSE
    /\ InitSession
    /\ InitRun
    /\ InitTvm
    /\ InitTool
    /\ file = [v \in Versions |-> "missing"]

\* c.executions(parameters.ExecutionParameters)
executionsCall ==
    /\ op \in {"Plan", "Apply"}
    /\ planRet = "none"
    /\ unbound' = projectExecutions(projectModules(modules, moduleNames), userVars)
    /\ planRet' = "binding"
    /\ UNCHANGED <<op, maxConcurrent, detach, consumed, deps, project, hooks>>
    /\ UNCHANGED <<modules, userVars, moduleNames, binds>>
    /\ UNCHANGED <<sessVars, parVars, runVars, obsVars, histVars, tvmVars, toolVars>>

\* A bindAll that goes on after an error of bind.
bindAllErrIgnored(bs) == FALSE

\* bindAll (execution_set.go:41-44): bind returned an error, which bindAll
\* returns at once.
bindAllErr(bs) == bs # <<>> /\ bs[Len(bs)].err # "nil"

\* One iteration of the loop of bindAll: unbound.bind(userVars).  The ID of
\* the bound execution is recorded with it.
bindNext ==
    /\ planRet = "binding"
    /\ ~bindAllErr(binds)
    /\ Len(binds) < Len(unbound)
    /\ LET e == unbound[Len(binds) + 1]
           r == bind(e, userVars.Values)
           b == [moduleConf |-> e.moduleConf, variables |-> r.variables]
       IN  binds' = Append(binds, [err |-> r.err, missing |-> r.missing, of |-> e,
                                   variables |-> r.variables,
                                   id |-> IF r.err = "nil" THEN executionID(b) ELSE <<>>])
    /\ UNCHANGED <<op, maxConcurrent, detach, consumed, deps, project, hooks>>
    /\ UNCHANGED <<modules, userVars, moduleNames, unbound, planRet>>
    /\ UNCHANGED <<sessVars, parVars, runVars, obsVars, histVars, tvmVars, toolVars>>

\* An Apply that always chooses session.applyWithGraph.
applyFnWithGraph(names) == "applyWithGraph"

\* Project.Apply (astro.go:155-160): applyFn is session.apply when
\* parameters.ModuleNames is not nil and session.applyWithGraph otherwise.
applyFn(names) == IF ~names.nil THEN "apply" ELSE "applyWithGraph"

\* Project.Plan and Project.Apply return (astro.go:123-133, 145-162): the
\* error of bindAll, or the channels of the session's operation, whose
\* goroutine has been started.
PlanReturn ==
    /\ planRet = "binding"
    /\ IF bindAllErr(binds)
         THEN /\ planRet' = "error"
              /\ UNCHANGED <<op, ownerPc>>
         ELSE /\ Len(binds) = Len(unbound)
              /\ planRet' = "channels"
              /\ op' = IF op = "Plan" THEN "plan" ELSE applyFn(moduleNames)
              /\ ownerPc' = IF op' = "applyWithGraph" THEN "walk" ELSE "loop"
    /\ UNCHANGED <<maxConcurrent, detach, consumed, deps, project, hooks>>
    /\ UNCHANGED <<modules, userVars, moduleNames, unbound, binds>>
    /\ UNCHANGED <<sessVars, parNext, guard, isShutDown, signalCh, notices>>
    /\ UNCHANGED <<runVars, obsVars, histVars, tvmVars, toolVars>>

NextBind ==
    \/ executionsCall
    \/ bindNext
    \/ PlanReturn

SpecBind == InitSpecBind /\ [][NextBind]_vars

(***************************************************************************)
(* SpecGraph: NewProject on a project of two modules with variables, the   *)
(* second of which may depend on executions of the first or on a module    *)
(* that the project does not have.                                         *)
(***************************************************************************)
\* replaceVarsInMapValues(dep.Variables, e.Variables()) (templates.go:56-66):
\* the result is a map, never nil.
replaceVarsInMapValues(inputMap, data) ==
    [key \in DOMAIN inputMap |-> replaceVars(inputMap[key], data)]

\* A filterMaps that compares nothing.
filterMapsAlways(a, b) == TRUE

\* filterMaps(a, b) (utils.go:43-54): keys of a that b does not have are
\* ignored.
filterMaps(a, b) == \A key \in DOMAIN a : key \in DOMAIN b => a[key] = b[key]

\* executionSet.filterByModule on executions with variables.
filterByModuleName(s, moduleName) ==
    SelectSeq(s, LAMBDA e : e.moduleConf.Name = moduleName)

\* A filterByDep that returns no error when no execution of the module
\* matches the variables of the dependency.
noExecutionMatchingNever(dependentExecutions) == FALSE

\* filterByDep (lines 86-90): len(dependentExecutions) == 0
noExecutionMatching(dependentExecutions) == Len(dependentExecutions) = 0

\* executionSet.filterByDep(dep) (execution_set.go:65-93) for a dependency
\* on module depModule whose Variables are nil (isNil) or the map variables:
\* the error and the executions it returns.
filterByDepVariables(s, depModule, isNil, variables) ==
    LET executionsForModule == filterByModuleName(s, depModule)
        dependentExecutions ==
            SelectSeq(executionsForModule, LAMBDA e : filterMaps(variables, e.variables))
    IN  IF Len(executionsForModule) = 0
          THEN [err |-> "missing dependency", executions |-> <<>>]
        ELSE IF isNil
          THEN [err |-> "nil", executions |-> executionsForModule]
        ELSE IF noExecutionMatching(dependentExecutions)
          THEN [err |-> "no execution matching dep", executions |-> <<>>]
        ELSE [err |-> "nil", executions |-> dependentExecutions]

\* executionSet.graph (execution_set.go:106-124): the error it returns.  The
\* dependency it gives to filterByDep has the map that
\* replaceVarsInMapValues made as its Variables.
executionSetGraphErr(s) ==
    \E i \in DOMAIN s : \E j \in DOMAIN s[i].moduleConf.Deps :
        LET dep == s[i].moduleConf.Deps[j]
            depVariables == replaceVarsInMapValues(dep.Variables, s[i].variables)
        IN  filterByDepVariables(s, dep.Module, FALSE, depVariables).err # "nil"

\* executionSet.graph (execution_set.go:106-121): the executions of s that
\* graph.Connect makes the targets of edges from s[i] for its dependency j,
\* those that filterByDep returned.
graphConnect(s, i, j) ==
    LET dep == s[i].moduleConf.Deps[j]
        depVariables == replaceVarsInMapValues(dep.Variables, s[i].variables)
        dependentExecutions == filterByDepVariables(s, dep.Module, FALSE, depVariables).executions
    IN  {k \in DOMAIN s : \E x \in DOMAIN dependentExecutions : dependentExecutions[x] = s[k]}

\* Module.Variables: at most one variable.
VariableListsOfOne ==
    {<<>>} \cup {<<v>> : v \in UNION {VariablesNamed(name) : name \in VarNames}}

\* Dependency.Variables: nil, or one key with a text or with the template
\* {{.name}} of a variable name.
DepVariables ==
    {[nil |-> TRUE, Variables |-> EmptyMap]}
    \cup {[nil |-> FALSE, Variables |-> [k \in {key} |-> [ref |-> FALSE, s |-> v]]] :
            key \in VarNames, v \in ValueStrings}
    \cup {[nil |-> FALSE, Variables |-> [k \in {key} |-> [ref |-> TRUE, s |-> name]]] :
            key \in VarNames, name \in VarNames}

\* Module.Deps: none, or one dependency on module "m" or on module "o",
\* which the project does not have.
DepLists ==
    {<<>>} \cup {<<[Module |-> name, nil |-> dv.nil, Variables |-> dv.Variables]>> :
                    name \in {<<"m">>, <<"o">>}, dv \in DepVariables}

InitSpecGraph ==
    /\ op = "NewProject"
    /\ maxConcurrent = ParallelLimit
    /\ detach = FALSE
    /\ consumed = TRUE
    /\ deps = NoDeps
    /\ project = "none"
    /\ hooks = NoHooks
    /\ modules \in {<<[Name |-> <<"m">>, Variables |-> vm, Deps |-> <<>>, BackendConfig |-> EmptyMap],
                      [Name |-> <<"n">>, Variables |-> vn, Deps |-> dl, BackendConfig |-> EmptyMap]>> :
                        vm \in VariableListsOfOne, vn \in VariableListsOfOne, dl \in DepLists}
    /\ userVars = NoUserVariables
    /\ moduleNames = NilModuleNames
    /\ unbound = <<>>
    /\ binds = <<>>
    /\ planRet = "none"
    /\ ownerPc = "off"
    /\ notified = FALSE
    /\ InitSession
    /\ InitRun
    /\ InitTvm
    /\ InitTool
    /\ file = [v \in Versions |-> "missing"]

\* NewProject (astro.go:70-73):
\* project.executions(NoExecutionParameters()).graph()
NewProjectGraph ==
    /\ op = "NewProject"
    /\ project = "none"
    /\ unbound' = projectExecutions(modules, NoUserVariables)
    /\ project' = IF executionSetGraphErr(unbound') THEN "error" ELSE "ok"
    /\ UNCHANGED <<op, maxConcurrent, detach, consumed, deps, hooks>>
    /\ UNCHANGED <<modules, userVars, moduleNames, binds, planRet>>
    /\ UNCHANGED <<sessVars, parVars, runVars, obsVars, histVars, tvmVars, toolVars>>

NextGraph == NewProjectGraph

SpecGraph == InitSpecGraph /\ [][NextGraph]_vars

(***************************************************************************)
(* SpecFilter: the executions of a project of two modules, "m" and "n",    *)
(* under the user variables that the command line makes of its flags.      *)
(***************************************************************************)
\* The values of the variables of SpecFilter and of its flags.
FilterStrings == {<<"x">>, <<"y">>}

\* Variable of SpecFilter: free (Values nil), or with a list of different
\* values.
FilterVariablesNamed(name) ==
    {[Name |-> name, nil |-> TRUE, Values |-> <<>>]}
    \cup {[Name |-> name, nil |-> FALSE, Values |-> vs] :
            vs \in {l \in UNION {[1 .. n -> FilterStrings] : n \in 0 .. MaxValues} : Injective(l)}}

\* Module.Variables of SpecFilter: at most two variables of different names.
FilterVariableLists ==
    {<<>>}
    \cup {<<v>> : v \in UNION {FilterVariablesNamed(name) : name \in VarNames}}
    \cup {<<v, w>> : v \in FilterVariablesNamed(<<"a">>), w \in FilterVariablesNamed(<<"b">>)}

InitSpecFilter ==
    /\ op \in {"Plan", "Apply"}
    /\ maxConcurrent = ParallelLimit
    /\ detach = FALSE
    /\ consumed = TRUE
    /\ deps = NoDeps
    /\ project = "ok"
    /\ hooks = NoHooks
    /\ modules \in {<<[Name |-> <<"m">>, Variables |-> vm, Deps |-> <<>>, BackendConfig |-> EmptyMap],
                      [Name |-> <<"n">>, Variables |-> vn, Deps |-> <<>>, BackendConfig |-> EmptyMap]>> :
                        vm \in FilterVariableLists, vn \in FilterVariableLists}
    /\ userVars \in {flagsToUserVariables(values, modules) :
                        values \in UNION {[names -> FilterStrings] : names \in SUBSET VarNames}}
    /\ moduleNames = NilModuleNames
    /\ unbound = <<>>
    /\ binds = <<>>
    /\ planRet = "none"
    /\ ownerPc = "off"
    /\ notified = FALSE
    /\ InitSession
    /\ InitRun
    /\ InitTvm
    /\ InitTool
    /\ file = [v \in Versions |-> "missing"]

NextFilter == executionsCall

SpecFilter == InitSpecFilter /\ [][NextFilter]_vars

(***************************************************************************)
(* SpecApply: Project.Apply on a project of the modules "m" and "n", with  *)
(* parameters.ModuleNames nil or a list of names, which may be empty or    *)
(* name a module "o" that the project does not have.                       *)
(***************************************************************************)
ModuleNameLists ==
    {NilModuleNames}
    \cup {[nil |-> FALSE, names |-> S] : S \in SUBSET {<<"m">>, <<"n">>, <<"o">>}}

InitSpecApply ==
    /\ op = "Apply"
    /\ maxConcurrent = ParallelLimit
    /\ detach = FALSE
    /\ consumed = TRUE
    /\ deps = NoDeps
    /\ project = "ok"
    /\ hooks = NoHooks
    /\ modules \in {<<[Name |-> <<"m">>, Variables |-> vm, Deps |-> <<>>, BackendConfig |-> EmptyMap],
                      [Name |-> <<"n">>, Variables |-> <<>>, Deps |-> <<>>, BackendConfig |-> EmptyMap]>> :
                        vm \in FilterVariableLists}
    /\ userVars = NoUserVariables
    /\ moduleNames \in ModuleNameLists
    /\ unbound = <<>>
    /\ binds = <<>>
    /\ planRet = "none"
    /\ ownerPc = "off"
    /\ notified = FALSE
    /\ InitSession
    /\ InitRun
    /\ InitTvm
    /\ InitTool
    /\ file = [v \in Versions |-> "missing"]

NextApply ==
    \/ executionsCall
    \/ bindNext
    \/ PlanReturn

SpecApply == InitSpecApply /\ [][NextApply]_vars

(***************************************************************************)
(* SpecHooks: plan, the flat apply and applyWithGraph on modules of which  *)
(* any may have PreModuleRun hooks.                                        *)
(***************************************************************************)
InitSpecHooks ==
    /\ op \in {"plan", "apply", "applyWithGraph"}
    /\ maxConcurrent = ParallelLimit
    /\ detach = FALSE
    /\ consumed = TRUE
    /\ deps = NoDeps
    /\ project = "ok"
    /\ hooks \in [Execs -> 0 .. MaxHooks]
    /\ ownerPc = IF op = "applyWithGraph" THEN "walk" ELSE "loop"
    /\ notified = (op # "applyWithGraph")
    /\ InitSession
    /\ InitRun
    /\ InitBind
    /\ InitTvm
    /\ InitTool
    /\ file = [v \in Versions |-> "missing"]

SpecHooks == InitSpecHooks /\ [][Next]_vars

(***************************************************************************)
(* SpecSession: calls of Session.newTerraformSession on one astro session, *)
(* made by the closures of one Plan or Apply or of several (the second     *)
(* and later ones get the same session from SessionRepo.Current).  Each    *)
(* call is for an execution ID, which names the directory of its Terraform *)
(* session; two calls may be for the same ID.  Before it calls             *)
(* NewTerraformSession a call fetches the Terraform version and makes the  *)
(* shared plugin directory, both outside of the directories of Terraform   *)
(* sessions.                                                               *)
(*   sessionDirs.dirs[d]:  whether directory d exists, what is in it and   *)
(*                         which calls created or wrote something in it    *)
(*   sessionDirs.calls[e]: the directory of call e, whether it existed     *)
(*                         when e was called and when e came to os.Mkdir,  *)
(*                         and what e returned                             *)
(***************************************************************************)
\* The goroutines that call newTerraformSession and the execution IDs.
Callers == Execs \cap (1 .. NumNamed)

SessionIDs == 1 .. NumNamed

NoDir == [exists |-> FALSE, entries |-> {}, writers |-> {}]

\* A directory that an earlier Plan or Apply of the session has made.
OldDir == [exists |-> TRUE, entries |-> {"logs", "sandbox", "tree"}, writers |-> {}]

NoCall == [dir |-> 0, existed |-> FALSE, atMkdir |-> FALSE, ret |-> "none"]

InitSpecSession ==
    /\ op = "newTerraformSession"
    /\ maxConcurrent = ParallelLimit
    /\ detach = FALSE
    /\ consumed = TRUE
    /\ deps = NoDeps
    /\ project = "ok"
    /\ hooks = NoHooks
    /\ ownerPc = "off"
    /\ notified = FALSE
    /\ InitSession
    /\ InitRun
    /\ InitBind
    /\ InitTvm
    /\ file = [v \in Versions |-> "missing"]
    /\ sessionDirs \in {[dirs |-> ds, calls |-> [e \in Callers |-> NoCall]] :
                          ds \in [SessionIDs -> {NoDir, OldDir}]}
    /\ tool = <<>>
    /\ zip = <<>>
    /\ env = <<>>
    /\ display = <<>>
    /\ inherit = <<>>
    /\ sandbox = <<>>

SessionUnchanged ==
    /\ UNCHANGED <<confVars, hookIdx, results, closed, status, vstate>>
    /\ UNCHANGED <<parVars, runVars, obsVars, histVars, tvmVars, tool, zip, env,
                display, inherit, sandbox>>

\* The call e returns err or goes on to the step next.
SessionStep(e, dirs, call, next) ==
    /\ sessionDirs' = [dirs |-> dirs, calls |-> [sessionDirs.calls EXCEPT ![e] = call]]
    /\ pc' = [pc EXCEPT ![e] = next]

\* What call e writes in its directory d.
SessionWrite(e, d, entry) ==
    [sessionDirs.dirs EXCEPT ![d] = [exists |-> TRUE,
                                     entries |-> @.entries \cup entry,
                                     writers |-> @.writers \cup {e}]]

\* s.newTerraformSession(b) is called for the execution ID d.
newTerraformSessionCall(e) ==
    /\ op = "newTerraformSession"
    /\ pc[e] = "idle"
    /\ \E d \in SessionIDs :
          SessionStep(e, sessionDirs.dirs,
                      [dir |-> d, existed |-> sessionDirs.dirs[d].exists,
                       atMkdir |-> FALSE, ret |-> "none"], "stat")
    /\ SessionUnchanged

\* NewTerraformSession (session.go:54-60): config.Validate() and
\* utils.FileExists(baseDir).
newTerraformSessionStat(e) ==
    /\ pc[e] = "stat"
    /\ LET call == sessionDirs.calls[e]
       IN  \/ SessionStep(e, sessionDirs.dirs, [call EXCEPT !.ret = "error"], "done")
           \/ /\ ~sessionDirs.dirs[call.dir].exists
              /\ SessionStep(e, sessionDirs.dirs, call, "mkdir")
    /\ SessionUnchanged

\* An os.Mkdir that succeeds on a directory that exists, as os.MkdirAll does.
mkdirExistNever(dirs, d) == FALSE

\* os.Mkdir(baseDir) fails with EEXIST when the directory exists.
mkdirExist(dirs, d) == dirs[d].exists

\* os.Mkdir of baseDir, logDir and sandboxDir (session.go:72-77); any of
\* them may fail.
newTerraformSessionMkdir(e) ==
    /\ pc[e] \in {"mkdir", "logs", "sandbox"}
    /\ LET call == IF pc[e] = "mkdir"
                     THEN [sessionDirs.calls[e] EXCEPT !.atMkdir = sessionDirs.dirs[sessionDirs.calls[e].dir].exists]
                     ELSE sessionDirs.calls[e]
           d == call.dir
           exist == IF pc[e] = "mkdir" THEN mkdirExist(sessionDirs.dirs, d)
                    ELSE pc[e] \in sessionDirs.dirs[d].entries
           entry == IF pc[e] = "mkdir" THEN {} ELSE {pc[e]}
           next == CASE pc[e] = "mkdir" -> "logs"
                     [] pc[e] = "logs" -> "sandbox"
                     [] OTHER -> "clone"
       IN  \/ SessionStep(e, sessionDirs.dirs, [call EXCEPT !.ret = "error"], "done")
           \/ /\ ~exist
              /\ SessionStep(e, SessionWrite(e, d, entry), call, next)
    /\ SessionUnchanged

\* cloneTree(config.BasePath, sandboxDir) (session.go:80-83): it copies the
\* tree, or a part of it and fails, or fails before it writes.
newTerraformSessionClone(e) ==
    /\ pc[e] = "clone"
    /\ LET call == sessionDirs.calls[e]
       IN  \/ SessionStep(e, SessionWrite(e, call.dir, {"tree"}), [call EXCEPT !.ret = "ok"], "done")
           \/ SessionStep(e, SessionWrite(e, call.dir, {"tree"}), [call EXCEPT !.ret = "error"], "done")
           \/ SessionStep(e, sessionDirs.dirs, [call EXCEPT !.ret = "error"], "done")
    /\ SessionUnchanged

NextSession ==
    \E e \in Callers :
        \/ newTerraformSessionCall(e)
        \/ newTerraformSessionStat(e)
        \/ newTerraformSessionMkdir(e)
        \/ newTerraformSessionClone(e)

SpecSession == InitSpecSession /\ [][NextSession]_vars

(***************************************************************************)
(* SpecTool: the closure of Session.plan or of an apply for one execution, *)
(* from terraform.Init on, with every subprocess that the methods of       *)
(* terraform.Session run.                                                  *)
(*   tool.todo     what is left to do: the calls of methods that the       *)
(*                 closure makes ("Init", "Detach", "Plan", "Apply") and   *)
(*                 the steps of the method that is running                 *)
(*   tool.trace    the subprocesses in the order of their Process.Run, and *)
(*                 the steps without a subprocess (started is false)       *)
(*   tool.initialized, tool.stateFile                                      *)
(*                 the directory .terraform and the file terraform.tfstate *)
(*                 are in the module directory of the sandbox              *)
(*   tool.result   the Result that the closure has sent                    *)
(* A subprocess of Terraform may create .terraform and terraform.tfstate,  *)
(* also when it fails; none removes them.                                  *)
(***************************************************************************)
ToolVersions == {"0.8", "0.11", "0.12"}

\* VersionMatches(terraformVersion, "< 0.9") and (terraformVersion, "<0.12")
VersionLegacy(v) == v = "0.8"

VersionBefore012(v) == v \in {"0.8", "0.11"}

NoResult == [sent |-> FALSE, err |-> FALSE, hasChanges |-> FALSE]

\* The closure of Session.plan (sessions.go:268-296) and of Session.apply and
\* applyWithGraph (sessions.go:123-139, 204-222) calls these methods.
closureCalls(method, withDetach) ==
    IF method = "plan"
      THEN <<"Init">> \o (IF withDetach THEN <<"Detach">> ELSE <<>>) \o <<"Plan">>
      ELSE <<"Init", "Apply">>

InitSpecTool ==
    /\ op = "terraform"
    /\ maxConcurrent = ParallelLimit
    /\ detach \in BOOLEAN
    /\ consumed = TRUE
    /\ deps = NoDeps
    /\ project = "ok"
    /\ hooks = NoHooks
    /\ ownerPc = "off"
    /\ notified = FALSE
    /\ InitSession
    /\ InitRun
    /\ InitBind
    /\ InitTvm
    /\ file = [v \in Versions |-> "missing"]
    /\ sessionDirs = {}
    /\ tool \in {[method |-> m, version |-> v, backend |-> b, workspace |-> w,
                  versionCached |-> FALSE, initialized |-> FALSE, stateFile |-> FALSE,
                  todo |-> closureCalls(m, detach), trace |-> <<>>, result |-> NoResult] :
                    m \in (IF detach THEN {"plan"} ELSE {"plan", "apply"}),
                    v \in ToolVersions, b \in BOOLEAN, w \in BOOLEAN}
    /\ zip = <<>>
    /\ env = <<>>
    /\ display = <<>>
    /\ inherit = <<>>
    /\ sandbox = <<>>

ToolUnchanged ==
    UNCHANGED <<confVars, sessVars, parVars, runVars, obsVars, histVars, tvmVars,
                sessionDirs, zip, env,
                display, inherit, sandbox>>

\* A method that goes on after an error.
returnsErrNever(err) == FALSE

\* "if err != nil { return result, err }" after a step of a method and after
\* a method in the closure.
returnsErr(err) == err

\* The closure sends its Result: with the error, or, when nothing is left
\* to do, without one.  PlanResult.HasChanges is process.ExitCode() == 2 of
\* the process of the plan.
ToolAfter(t, err, planCode) ==
    IF returnsErr(err)
      THEN [t EXCEPT !.todo = <<>>,
                     !.result = [sent |-> TRUE, err |-> TRUE, hasChanges |-> FALSE]]
    ELSE IF t.todo = <<>>
      THEN [t EXCEPT !.result = [sent |-> TRUE, err |-> FALSE,
                                 hasChanges |-> t.method = "plan" /\ planCode = 2]]
    ELSE t

\* s.Initialized(): the "ensure Init" of Detach, Plan and Apply.
ensureInit(t) == IF ~t.initialized THEN <<"Init">> ELSE <<>>

\* The steps of the workspace, for Plan and Apply.
workspaceSelect(t) == IF t.workspace THEN <<"workspace">> ELSE <<>>

\* The steps of a method of terraform.Session, in front of what is left.
methodSteps(t, m) ==
    CASE m = "Init" ->
           IF VersionLegacy(t.version) /\ ~t.backend THEN <<"get">> ELSE <<"init", "get">>
      [] m = "Detach" ->
           ensureInit(t)
           \o (IF VersionLegacy(t.version) THEN <<"remote">>
               ELSE <<"grep", "deleteBackend", "reinit">>)
           \o <<"stateCheck">>
      [] m = "Plan" -> ensureInit(t) \o workspaceSelect(t) \o <<"plan">>
      [] OTHER -> ensureInit(t) \o workspaceSelect(t) \o <<"apply">>

Methods == {"Init", "Detach", "Plan", "Apply"}

Subprocesses == {"init", "get", "remote", "grep", "reinit", "workspace", "plan", "show", "apply"}

\* A plan that has only the exit code 0 as success.
toolSuccessCodesZero(cmd) == {0}

\* The expectedSuccessCodes given to s.terraformCommand and s.command.
toolSuccessCodes(cmd) ==
    CASE cmd = "plan" -> {0, 2}
      [] cmd = "grep" -> {0, 1}
      [] OTHER -> {0}

\* A method is called: s.versionCached() in Init, Detach and Apply may fail
\* the first time (part_010:33-43), then the steps of the method follow.
toolCall ==
    /\ op = "terraform"
    /\ tool.todo # <<>>
    /\ Head(tool.todo) \in Methods
    /\ LET m == Head(tool.todo)
           t == [tool EXCEPT !.todo = methodSteps(tool, m) \o Tail(tool.todo)]
       IN  \/ tool' = [t EXCEPT !.versionCached = (@ \/ m # "Plan")]
           \/ /\ ~tool.versionCached
              /\ m # "Plan"
              /\ tool' = ToolAfter(tool, TRUE, 0)
    /\ ToolUnchanged

\* process.Run() of a subprocess, or the error of the call that makes the
\* process: the subprocess is not started, or it ends with an outcome, with
\* or without a signal received by Run while it waited.
toolRun ==
    /\ op = "terraform"
    /\ tool.todo # <<>>
    /\ Head(tool.todo) \in Subprocesses
    /\ LET cmd == Head(tool.todo)
           t == [tool EXCEPT !.todo = Tail(@)]
       IN  \/ tool' = ToolAfter([t EXCEPT !.trace = Append(@, [cmd |-> cmd, started |-> FALSE,
                                                              code |-> -1, sig |-> FALSE, err |-> TRUE])],
                                TRUE, 0)
           \/ \E o \in Outcomes : \E sig \in BOOLEAN : \E dotTerraform \in BOOLEAN : \E state \in BOOLEAN :
                LET err == RunError(o, toolSuccessCodes(cmd), sig)
                    u == [t EXCEPT !.trace = Append(@, [cmd |-> cmd, started |-> TRUE,
                                                        code |-> o.code, sig |-> sig, err |-> err]),
                                   !.initialized = @ \/ (dotTerraform /\ cmd # "grep"),
                                   !.stateFile = @ \/ (state /\ cmd # "grep"),
                                   !.todo = IF cmd = "plan" /\ ~err /\ ExitCode(o) = 2
                                              THEN (IF VersionBefore012(t.version)
                                                      THEN <<"show">> ELSE <<"parse">>) \o @
                                              ELSE @]
                    planCode == IF \E i \in DOMAIN u.trace : u.trace[i].cmd = "plan"
                                  THEN u.trace[CHOOSE i \in DOMAIN u.trace : u.trace[i].cmd = "plan"].code
                                  ELSE 0
                IN  tool' = ToolAfter(u, err, planCode)
    /\ ToolUnchanged

\* A Detach without its last test.
stateFileAbsentNever(t) == FALSE

\* !utils.FileExists(filepath.Join(s.moduleDir, "terraform.tfstate"))
stateFileAbsent(t) == ~t.stateFile

\* The steps that run no subprocess of Terraform: the regular expression on
\* the output of the plan (part_009:57-68), the removal of the backend from
\* the files (terraform_remote_state_disable.go:121-131), which succeed or
\* fail, and the test of the state file at the end of Detach (lines 60-63).
toolCheck ==
    /\ op = "terraform"
    /\ tool.todo # <<>>
    /\ Head(tool.todo) \in {"parse", "deleteBackend", "stateCheck"}
    /\ LET step == Head(tool.todo)
           t(err) == [tool EXCEPT !.todo = Tail(@),
                                  !.trace = Append(@, [cmd |-> step, started |-> FALSE,
                                                       code |-> -1, sig |-> FALSE, err |-> err])]
       IN  IF step = "stateCheck"
             THEN tool' = ToolAfter(t(stateFileAbsent(tool)), stateFileAbsent(tool), 0)
             ELSE \E err \in BOOLEAN : tool' = ToolAfter(t(err), err, 2)
    /\ ToolUnchanged

NextTool ==
    \/ toolCall
    \/ toolRun
    \/ toolCheck

SpecTool == InitSpecTool /\ [][NextTool]_vars

(***************************************************************************)
(* SpecZip: unzip(zipfilePath, destDir) (part_015:54-95) on an archive of  *)
(* at most MaxEntries entries.  A path is the sequence of its elements;    *)
(* the name of an entry may have the element "..".                         *)
(*   zip.archive  the entries of the archive: name and whether a directory *)
(*   zip.next     the index of the entry that the loop comes to            *)
(*   zip.files    the paths of the files written                           *)
(*   zip.dirs     the paths of the directories made                        *)
(*   zip.ret      what unzip returned: "none" (not yet), "nil", "error"    *)
(***************************************************************************)
destDir == <<"tmp", "dest">>

EntryNames ==
    {<<"README">>, <<"..", "naughty">>, <<"a", "b">>, <<"a", "..", "..", "c">>}

ZipEntries == [name : EntryNames, isDir : BOOLEAN]

Archives == UNION {[1 .. n -> ZipEntries] : n \in 0 .. MaxEntries}

\* filepath.Clean of an absolute path: an element ".." removes the element
\* before it, and is dropped at the root.
RECURSIVE cleanPath(_, _)
cleanPath(done, rest) ==
    IF rest = <<>> THEN done
    ELSE IF Head(rest) = ".."
      THEN cleanPath(IF done = <<>> THEN <<>> ELSE SubSeq(done, 1, Len(done) - 1), Tail(rest))
    ELSE cleanPath(Append(done, Head(rest)), Tail(rest))

\* filepath.Join(destDir, f.Name)
filepathJoin(dir, name) == cleanPath(<<>>, dir \o name)

\* filepath.Dir(path) of a cleaned path
filepathDir(path) == IF path = <<>> THEN <<>> ELSE SubSeq(path, 1, Len(path) - 1)

\* os.MkdirAll(path): the directories made; destDir and the directories
\* above it are there before unzip is called.
osMkdirAll(dirs, path) ==
    IF Len(path) <= Len(destDir) /\ path = SubSeq(destDir, 1, Len(path))
      THEN dirs ELSE dirs \cup {path}

InitSpecZip ==
    /\ op = "unzip"
    /\ maxConcurrent = ParallelLimit
    /\ detach = FALSE
    /\ consumed = TRUE
    /\ deps = NoDeps
    /\ project = "ok"
    /\ hooks = NoHooks
    /\ ownerPc = "off"
    /\ notified = FALSE
    /\ InitSession
    /\ InitRun
    /\ InitBind
    /\ InitTvm
    /\ file = [v \in Versions |-> "missing"]
    /\ sessionDirs = {}
    /\ tool = <<>>
    /\ zip \in {[archive |-> a, next |-> 1, files |-> {}, dirs |-> {}, ret |-> "none"] :
                  a \in Archives}
    /\ env = <<>>
    /\ display = <<>>
    /\ inherit = <<>>
    /\ sandbox = <<>>

ZipUnchanged ==
    UNCHANGED <<confVars, sessVars, parVars, runVars, obsVars, histVars, tvmVars,
                sessionDirs, tool, env,
                display, inherit, sandbox>>

\* One iteration of "for _, f := range r.File" (lines 61-93): f.Open,
\* os.MkdirAll, os.OpenFile and io.Copy succeed or fail; a file that
\* os.OpenFile created stays when io.Copy fails.
unzipEntry ==
    /\ op = "unzip"
    /\ zip.ret = "none"
    /\ zip.next <= Len(zip.archive)
    /\ LET f == zip.archive[zip.next]
           path == filepathJoin(destDir, f.name)
       IN  \/ zip' = [zip EXCEPT !.ret = "error"]
           \/ /\ f.isDir
              /\ \E made \in BOOLEAN :
                    zip' = [zip EXCEPT !.next = @ + 1,
                                       !.dirs = IF made THEN osMkdirAll(@, path) ELSE @]
           \/ /\ ~f.isDir
              /\ \/ zip' = [zip EXCEPT !.dirs = osMkdirAll(@, filepathDir(path)), !.ret = "error"]
                 \/ zip' = [zip EXCEPT !.dirs = osMkdirAll(@, filepathDir(path)),
                                       !.files = @ \cup {path}, !.ret = "error"]
                 \/ zip' = [zip EXCEPT !.dirs = osMkdirAll(@, filepathDir(path)),
                                       !.files = @ \cup {path}, !.next = @ + 1]
    /\ ZipUnchanged

\* return nil (line 94)
unzipReturn ==
    /\ op = "unzip"
    /\ zip.ret = "none"
    /\ zip.next > Len(zip.archive)
    /\ zip' = [zip EXCEPT !.ret = "nil"]
    /\ ZipUnchanged

NextZip ==
    \/ unzipEntry
    \/ unzipReturn

SpecZip == InitSpecZip /\ [][NextZip]_vars

(***************************************************************************)
(* Hooks: runCommandkAndSetEnvironment and parseOutputIntoEnv.  env is the *)
(* run of one hook: what the command wrote to its stdout (out), its exit   *)
(* code, the hook's set_env, the bytes the scanner has not read (buf), the *)
(* environment of the process (environ, pairs of key and value), the       *)
(* numbers of the lines whose os.Setenv succeeded (set), the number of     *)
(* lines scanned and what runCommandkAndSetEnvironment returned.           *)
(***************************************************************************)
\* The bytes a hook writes in the model.
OutputChars == {"A", "=", "1", "\n"}

Outputs == UNION {[1..n -> OutputChars] : n \in 0..MaxOutput}

\* strings.Index(s, c) + 1 for a one-byte c: the place of the first c in
\* s, 0 when there is none.
stringsIndex(s, c) ==
    IF \E i \in 1..Len(s) : s[i] = c
      THEN CHOOSE i \in 1..Len(s) : s[i] = c /\ \A j \in 1..(i - 1) : s[j] # c
      ELSE 0

\* bufio.ScanLines on what is left in the buffer: the token is the text up
\* to the first newline, without it; the last line needs no newline.
ScanLines(buf) ==
    LET i == stringsIndex(buf, "\n")
    IN  IF i = 0 THEN [text |-> buf, rest |-> <<>>]
        ELSE [text |-> SubSeq(buf, 1, i - 1), rest |-> SubSeq(buf, i + 1, Len(buf))]

\* A split that never finds the separator.
SplitNWhole(s, sep) == <<s>>

\* strings.SplitN(s, sep, 2) for a one-byte sep: s cut at the first sep, or
\* s alone when it has none.
SplitN(s, sep) ==
    LET i == stringsIndex(s, sep)
    IN  IF i = 0 THEN <<s>>
        ELSE <<SubSeq(s, 1, i - 1), SubSeq(s, i + 1, Len(s))>>

\* os.Setenv(key, value) returns EINVAL: the key is empty, or the key has
\* a '=' or a NUL, or the value has a NUL (syscall.Setenv).
SetenvFails(key, value) == key = <<>> \/ \E i \in 1..Len(key) : key[i] = "="

\* os.Setenv(key, value) on the environment.
Setenv(environ, key, value) == {p \in environ : p[1] # key} \cup {<<key, value>>}

InitSpecEnv ==
    /\ op = "runHook"
    /\ maxConcurrent = ParallelLimit
    /\ detach = FALSE
    /\ consumed = TRUE
    /\ deps = NoDeps
    /\ project = "ok"
    /\ hooks = NoHooks
    /\ ownerPc = "off"
    /\ notified = FALSE
    /\ InitSession
    /\ InitRun
    /\ InitBind
    /\ InitTvm
    /\ file = [v \in Versions |-> "missing"]
    /\ sessionDirs = {}
    /\ tool = <<>>
    /\ zip = <<>>
    /\ env \in {[out |-> o, code |-> c, setEnv |-> s, buf |-> o, environ |-> {},
                 set |-> {}, scanned |-> 0, pc |-> "run", ret |-> "none"] :
                  o \in Outputs, c \in {0, 1}, s \in BOOLEAN}
    /\ display = <<>>
    /\ inherit = <<>>
    /\ sandbox = <<>>

EnvUnchanged ==
    UNCHANGED <<confVars, sessVars, parVars, runVars, obsVars, histVars, tvmVars,
                sessionDirs, tool, zip,
                display, inherit, sandbox>>

\* runCommandkAndSetEnvironment (lines 38-73): cmd.Run() returns an error
\* when the command exits with a code other than 0; the output is parsed
\* only for a hook with set_env.
runCommandkAndSetEnvironment ==
    /\ op = "runHook"
    /\ env.pc = "run"
    /\ env' = IF env.code # 0 THEN [env EXCEPT !.pc = "done", !.ret = "error"]
              ELSE IF ~env.setEnv THEN [env EXCEPT !.pc = "done", !.ret = "nil"]
              ELSE [env EXCEPT !.pc = "scan"]
    /\ EnvUnchanged

\* parseOutputIntoEnv (lines 78-98), one scanner.Scan(): no line is left
\* and nil is returned (scanner.Err() is nil for lines this short); or the
\* line is not cut in two and nil is returned; or os.Setenv fails and the
\* hook returns the error; or the variable is set.
parseOutputIntoEnv ==
    /\ op = "runHook"
    /\ env.pc = "scan"
    /\ LET tok == ScanLines(env.buf)
           parts == SplitN(tok.text, "=")
       IN  env' = IF env.buf = <<>> THEN [env EXCEPT !.pc = "done", !.ret = "nil"]
                  ELSE IF Len(parts) # 2
                    THEN [env EXCEPT !.pc = "done", !.ret = "nil", !.buf = tok.rest,
                                     !.scanned = @ + 1]
                  ELSE IF SetenvFails(parts[1], parts[2])
                    THEN [env EXCEPT !.pc = "done", !.ret = "error", !.buf = tok.rest,
                                     !.scanned = @ + 1]
                  ELSE [env EXCEPT !.buf = tok.rest,
                                   !.scanned = @ + 1,
                                   !.set = @ \cup {env.scanned + 1},
                                   !.environ = Setenv(@, parts[1], parts[2])]
    /\ EnvUnchanged

NextEnv ==
    \/ runCommandkAndSetEnvironment
    \/ parseOutputIntoEnv

SpecEnv == InitSpecEnv /\ [][NextEnv]_vars

(***************************************************************************)
(* The command line: printExecStatus (cli/astro/cmd/display.go).  A text   *)
(* is the sequence of its lines.  display holds the Results that the       *)
(* results channel will deliver (queue), the number of Results printed,    *)
(* what was written to os.Stdout and os.Stderr, each line with the number  *)
(* of the Result it was written for, and whether the function returned.    *)
(***************************************************************************)
\* What a child process wrote to its stderr.
ChildStderr == {<<>>, <<"problems">>}

\* The text of the error Process.Run returns (process.go:144-164): the
\* "signal received" error when a signal was taken, and, when the child did
\* not exit with a success code, the child's stderr before the errors.
RunErrText(o, codes, sigErrors, text) ==
    LET errs == (IF sigErrors THEN <<"signal received">> ELSE <<>>)
    IN  IF ~Success(o, codes) THEN text \o errs \o <<"exit status">>
        ELSE errs

\* The Result that the closure of Session.plan sends after terraform.Init
\* or terraform.Plan ran a child (sessions.go:269-296, terraform_plan.go:
\* 61-86, part_012:98-103): the terraformResult of the process with the
\* error of Run, or the PlanResult without an error.
stepResult(step, o, sigErrors, text) ==
    IF RunError(o, ExpectedSuccessCodes(step), sigErrors)
      THEN [res |-> "terraformResult", stderr |-> text, changes |-> FALSE,
            failed |-> ~Success(o, ExpectedSuccessCodes(step)),
            err |-> RunErrText(o, ExpectedSuccessCodes(step), sigErrors, text)]
      ELSE [res |-> "PlanResult", stderr |-> text, changes |-> ExitCode(o) = 2,
            failed |-> FALSE, err |-> <<>>]

\* A Result without a terraformResult: newTerraformSession or a hook failed
\* (sessions.go:248-265).
sessionErrResult ==
    [res |-> "nil", stderr |-> <<>>, changes |-> FALSE, failed |-> FALSE,
     err |-> <<"session error">>]

Results ==
    {sessionErrResult} \cup
    {stepResult(step, o, s, text) :
        step \in {"init", "plan"}, o \in Outcomes, s \in BOOLEAN, text \in ChildStderr}

ResultQueues == UNION {[1..n -> Results] : n \in 0..MaxResults}

InitSpecDisplay ==
    /\ op = "printExecStatus"
    /\ maxConcurrent = ParallelLimit
    /\ detach = FALSE
    /\ consumed = TRUE
    /\ deps = NoDeps
    /\ project = "ok"
    /\ hooks = NoHooks
    /\ ownerPc = "off"
    /\ notified = FALSE
    /\ InitSession
    /\ InitRun
    /\ InitBind
    /\ InitTvm
    /\ file = [v \in Versions |-> "missing"]
    /\ sessionDirs = {}
    /\ tool = <<>>
    /\ zip = <<>>
    /\ env = <<>>
    /\ display \in {[queue |-> q, printed |-> 0, stdout |-> <<>>, stderr |-> <<>>,
                     returned |-> FALSE] : q \in ResultQueues}
    /\ inherit = <<>>
    /\ sandbox = <<>>

DisplayUnchanged ==
    UNCHANGED <<confVars, sessVars, parVars, runVars, obsVars, histVars, tvmVars,
                sessionDirs, tool, zip, env, inherit, sandbox>>

\* The lines of text, each marked with the number of the Result.
Written(i, text) == [k \in 1..Len(text) |-> <<i, text[k]>>]

\* What one iteration of "for result := range results" writes to out
\* (lines 89-118): the status line, the plan when it has changes,
\* terraformResult.Stderr() when there is a terraformResult, and
\* result.Err() when it is not nil.
printResult(i, r) ==
    Written(i, <<IF r.err = <<>> THEN "OK" ELSE "ERROR">>)
    \o Written(i, IF r.res = "PlanResult" /\ r.changes THEN <<"plan output">> ELSE <<>>)
    \o Written(i, IF r.res # "nil" THEN r.stderr ELSE <<>>)
    \o Written(i, r.err)

\* One iteration of the loop of printExecStatus (lines 53-119): out is
\* os.Stderr for a Result with an error and os.Stdout otherwise.
printExecStatus ==
    /\ op = "printExecStatus"
    /\ ~display.returned
    /\ display.printed < Len(display.queue)
    /\ LET i == display.printed + 1
           r == display.queue[i]
       IN  display' = IF r.err # <<>>
                        THEN [display EXCEPT !.printed = i,
                                             !.stderr = @ \o printResult(i, r)]
                        ELSE [display EXCEPT !.printed = i,
                                             !.stdout = @ \o printResult(i, r)]
    /\ DisplayUnchanged

\* The results channel is closed and empty: return errors (line 121).
printReturn ==
    /\ op = "printExecStatus"
    /\ ~display.returned
    /\ display.printed = Len(display.queue)
    /\ display' = [display EXCEPT !.returned = TRUE]
    /\ DisplayUnchanged

NextDisplay ==
    \/ printExecStatus
    \/ printReturn

SpecDisplay == InitSpecDisplay /\ [][NextDisplay]_vars

(***************************************************************************)
(* SpecLive: the operations of Spec with goroutines that keep running.     *)
(* The Go scheduler runs every goroutine that can take a step, and every   *)
(* child process exits in the end; signals arrive or not.                  *)
(***************************************************************************)
Fairness ==
    /\ WF_vars(ParLaunch)
    /\ WF_vars(ParBreak)
    /\ WF_vars(ParReturn)
    /\ WF_vars(ParHandler)
    /\ WF_vars(WalkReturn)
    /\ \A e \in Execs :
         /\ WF_vars(WalkVertex(e))
         /\ WF_vars(NewSession(e))
         /\ WF_vars(RunHook(e))
         /\ WF_vars(RunBegin(e))
         /\ WF_vars(RunSignal(e))
         /\ WF_vars(RunExit(e))

SpecLive == Init /\ [][Next]_vars /\ Fairness

(***************************************************************************)
(* The environment of the process during applyWithGraph: the PreModuleRun  *)
(* hooks of the executions (sessions.go:193-202) and the environment that  *)
(* Session.command gives to a child (terraform/session.go:101-116).        *)
(* inherit holds the hooks of every module, the environment of the process *)
(* (environ), the environment it had when the operation began (began),     *)
(* where the goroutine of each execution is (at), the number of hooks it   *)
(* has run (ran) and the environment its terraform child was given (child, *)
(* or NoChild).                                                            *)
(***************************************************************************)
\* What the command of a hook writes to its stdout in this specification.
HookOutputs == {<<"A", "=", "1">>, <<"1">>}

\* conf.Hook: SetEnv and, in place of the command, what it writes.
HookSet == [SetEnv : BOOLEAN, out : HookOutputs]

\* ModuleHooks.PreModuleRun of a module.
HookLists == UNION {[1..n -> HookSet] : n \in 0..MaxHooks}

\* The environment the startup hooks left when NewProject returned.
StartEnvirons == {{}, {<<<<"A">>, <<"0">>>>}}

NoChild == [started |-> FALSE, Env |-> {}]

\* parseOutputIntoEnv on the whole output: the environment when it returns.
RECURSIVE parseOutput(_, _)
parseOutput(environ, buf) ==
    IF buf = <<>> THEN environ
    ELSE LET tok == ScanLines(buf)
             parts == SplitN(tok.text, "=")
         IN  IF Len(parts) # 2 \/ SetenvFails(parts[1], parts[2]) THEN environ
             ELSE parseOutput(Setenv(environ, parts[1], parts[2]), tok.rest)

\* runCommandkAndSetEnvironment (part_000:62-70) for a command that exits
\* with status 0: the output is parsed into the environment when the hook
\* has set_env.
hookEnviron(environ, hook) ==
    IF hook.SetEnv THEN parseOutput(environ, hook.out) ELSE environ

InitSpecInherit ==
    /\ op = "hooksEnv"
    /\ maxConcurrent = ParallelLimit
    /\ detach = FALSE
    /\ consumed = TRUE
    /\ deps = NoDeps
    /\ project = "ok"
    /\ hooks = NoHooks
    /\ ownerPc = "off"
    /\ notified = FALSE
    /\ InitSession
    /\ InitRun
    /\ InitBind
    /\ InitTvm
    /\ file = [v \in Versions |-> "missing"]
    /\ sessionDirs = {}
    /\ tool = <<>>
    /\ zip = <<>>
    /\ env = <<>>
    /\ display = <<>>
    /\ inherit \in {[hooks |-> h, environ |-> s, began |-> s,
                     at |-> [e \in Execs |-> "hooks"],
                     ran |-> [e \in Execs |-> 0],
                     child |-> [e \in Execs |-> NoChild]] :
                      h \in [Execs -> HookLists], s \in StartEnvirons}
    /\ sandbox = <<>>

InheritUnchanged ==
    UNCHANGED <<confVars, sessVars, parVars, runVars, obsVars, histVars, tvmVars,
                sessionDirs, tool, zip, env, display, sandbox>>

\* One iteration of "for _, hook := range b.ModuleConfig().Hooks.PreModuleRun"
\* (sessions.go:193-202): the command fails and the callback returns, or it
\* exits with status 0 and runCommandkAndSetEnvironment sets the environment.
hookRun(e) ==
    /\ op = "hooksEnv"
    /\ inherit.at[e] = "hooks"
    /\ inherit.ran[e] < Len(inherit.hooks[e])
    /\ LET hook == inherit.hooks[e][inherit.ran[e] + 1]
       IN  \/ inherit' = [inherit EXCEPT !.at[e] = "done"]
           \/ inherit' = [inherit EXCEPT !.ran[e] = @ + 1,
                                         !.environ = hookEnviron(@, hook)]
    /\ InheritUnchanged

\* terraform.Init (sessions.go:204-205): Session.command takes os.Environ()
\* for the Env of the child (terraform/session.go:102, 111).
command(e) ==
    /\ op = "hooksEnv"
    /\ inherit.at[e] = "hooks"
    /\ inherit.ran[e] = Len(inherit.hooks[e])
    /\ inherit' = [inherit EXCEPT !.at[e] = "done", !.child[e] = [started |-> TRUE, Env |-> inherit.environ]]
    /\ InheritUnchanged

NextInherit == \E e \in Execs : hookRun(e) \/ command(e)

SpecInherit == InitSpecInherit /\ [][NextInherit]_vars

(***************************************************************************)
(* Detach on the sandbox of a session: cloneTree (terraform/session.go),   *)
(* deleteBackendConfig and deleteTerraformBackendConfigFromFile.  sandbox  *)
(* holds the content of every inode, the inode of every file of the module *)
(* under the code root (root) and in the sandbox (box, 0 when the name is  *)
(* unlinked), the content the files of the code root had before (was), the *)
(* files that grep found and that are still to rewrite (candidates), where *)
(* the rewrite of the first of them is (pc), the bytes read and what       *)
(* deleteBackendConfig returned.                                           *)
(***************************************************************************)
Files == 1 .. MaxFiles

\* What a .tf file holds: a terraform block with a backend, a terraform
\* block without one, no terraform block; "empty" is a file just created
\* or truncated.
Contents == {"backend", "terraform", "plain"}

\* grep -rlE "terraform\s+{" (line 109): the file has a terraform block.
grepMatches(content) == content \in {"backend", "terraform"}

\* deleteTerraformBackendConfig(in, v): the configuration without its
\* backend block.
deleteTerraformBackendConfig(content) ==
    IF content = "backend" THEN "terraform" ELSE content

\* An order of the files of S, as grep prints them.
RECURSIVE SeqOf(_)
SeqOf(S) ==
    IF S = {} THEN <<>>
    ELSE LET f == CHOOSE x \in S : \A y \in S : x <= y
         IN  <<f>> \o SeqOf(S \ {f})

\* cloneTree (cpio -pl): every file of the sandbox is a hard link to the
\* file of the code root, one inode under two names.
cloneTree(root) == root

InitSpecSandbox ==
    /\ op = "deleteBackendConfig"
    /\ maxConcurrent = ParallelLimit
    /\ detach = FALSE
    /\ consumed = TRUE
    /\ deps = NoDeps
    /\ project = "ok"
    /\ hooks = NoHooks
    /\ ownerPc = "off"
    /\ notified = FALSE
    /\ InitSession
    /\ InitRun
    /\ InitBind
    /\ InitTvm
    /\ file = [v \in Versions |-> "missing"]
    /\ sessionDirs = {}
    /\ tool = <<>>
    /\ zip = <<>>
    /\ env = <<>>
    /\ display = <<>>
    /\ inherit = <<>>
    /\ sandbox \in {[content |-> [i \in 1..(2 * MaxFiles) |-> IF i \in Files THEN c[i] ELSE "none"],
                     root |-> [f \in Files |-> f],
                     box |-> cloneTree([f \in Files |-> f]),
                     was |-> c,
                     candidates |-> SeqOf({f \in Files : grepMatches(c[f])}),
                     pc |-> "read",
                     read |-> "none",
                     ret |-> "none"] : c \in [Files -> Contents]}

SandboxUnchanged ==
    UNCHANGED <<confVars, sessVars, parVars, runVars, obsVars, histVars, tvmVars,
                sessionDirs, tool, zip, env, display, inherit>>

\* deleteBackendConfig (lines 118-133) with no candidate left, or with the
\* one empty name that strings.Split makes of an empty output of grep, which
\* ioutil.ReadFile cannot read.
deleteBackendConfigReturn ==
    /\ op = "deleteBackendConfig"
    /\ sandbox.ret = "none"
    /\ sandbox.candidates = <<>>
    /\ sandbox' = [sandbox EXCEPT !.ret =
                      IF \E f \in Files : grepMatches(sandbox.was[f]) THEN "nil" ELSE "error"]
    /\ SandboxUnchanged

\* deleteTerraformBackendConfigFromFile (lines 250-258): ioutil.ReadFile and
\* deleteTerraformBackendConfig, either of which may return an error.
rewriteRead ==
    /\ op = "deleteBackendConfig"
    /\ sandbox.ret = "none"
    /\ sandbox.candidates # <<>>
    /\ sandbox.pc = "read"
    /\ LET f == Head(sandbox.candidates)
       IN  \/ sandbox' = [sandbox EXCEPT !.ret = "error"]
           \/ sandbox' = [sandbox EXCEPT !.pc = "remove",
                                         !.read = sandbox.content[sandbox.box[f]]]
    /\ SandboxUnchanged

\* os.Remove(file) (line 262) unlinks the name, or fails and leaves it (the
\* directory of the sandbox is not writable, as a directory of the code
\* root that cpio copied with its mode); the error is not looked at.
osRemoveFails == BOOLEAN

rewriteRemove ==
    /\ op = "deleteBackendConfig"
    /\ sandbox.ret = "none"
    /\ sandbox.pc = "remove"
    /\ LET f == Head(sandbox.candidates)
       IN  \E fails \in osRemoveFails :
              sandbox' = [sandbox EXCEPT !.pc = "create",
                                         !.box[f] = IF fails THEN @ ELSE 0]
    /\ SandboxUnchanged

\* os.Create(file) (lines 264-267), open with O_RDWR|O_CREATE|O_TRUNC: a
\* name that is still linked is opened and its inode truncated, a name that
\* is not gets a new, empty inode; or the call fails.
rewriteCreate ==
    /\ op = "deleteBackendConfig"
    /\ sandbox.ret = "none"
    /\ sandbox.pc = "create"
    /\ LET f == Head(sandbox.candidates)
           inode == IF sandbox.box[f] # 0 THEN sandbox.box[f] ELSE MaxFiles + f
       IN  \/ sandbox' = [sandbox EXCEPT !.ret = "error"]
           \/ sandbox' = [sandbox EXCEPT !.pc = "write",
                                         !.box[f] = inode,
                                         !.content[inode] = "empty"]
    /\ SandboxUnchanged

\* newFile.Write(updatedConfig) (lines 269-276): the new configuration is
\* written and the next candidate is taken, or the write fails.
rewriteWrite ==
    /\ op = "deleteBackendConfig"
    /\ sandbox.ret = "none"
    /\ sandbox.pc = "write"
    /\ LET f == Head(sandbox.candidates)
       IN  \/ sandbox' = [sandbox EXCEPT !.ret = "error"]
           \/ sandbox' = [sandbox EXCEPT
                            !.pc = "read",
                            !.content[sandbox.box[f]] = deleteTerraformBackendConfig(sandbox.read),
                            !.candidates = Tail(@)]
    /\ SandboxUnchanged

NextSandbox ==
    \/ deleteBackendConfigReturn
    \/ rewriteRead
    \/ rewriteRemove
    \/ rewriteCreate
    \/ rewriteWrite

SpecSandbox == InitSpecSandbox /\ [][NextSandbox]_vars

(***************************************************************************)
(* Properties.                                                             *)
(***************************************************************************)
\* A step of execution e has begun (the creation of its session is the first).
Begun(e) == pc[e] \notin {"idle", "skipped"}

\* e depends, directly or through other executions, on an execution whose
\* callback returned an error.
DependsOnFailed(e) == \E d \in Reach(Edges, e) : vstate[d] = "err"

\* C1: in applyWithGraph no step of an execution begins until every
\* execution it depends on has finished its Apply with a nil error, that is
\* has delivered its one Result, without an error, and returned.
C1_DepsAppliedFirst ==
    op = "applyWithGraph" =>
        \A e \in Execs : Begun(e) =>
            \A d \in Edges[e] : pc[d] = "done" /\ results[d] = <<FALSE>>

\* An execution with a dependency is running its Apply.
C1_Witness ==
    /\ op = "applyWithGraph"
    /\ \E e \in Execs : Edges[e] # {} /\ pc[e] = "apply" /\ child[e] = "running"

\* C2: in applyWithGraph an execution that fails delivers a Result with an
\* error; an execution that depends on it, directly or not, delivers no
\* Result and starts no child process; and when the walk has returned every
\* execution that depends on no failed execution has delivered its Result.
C2_FailureCascade ==
    op = "applyWithGraph" =>
        \A e \in Execs :
            /\ vstate[e] = "err" => results[e] = <<TRUE>>
            /\ DependsOnFailed(e) => results[e] = <<>> /\ ~spawned[e]
            /\ (closed > 0 /\ ~DependsOnFailed(e)) => Len(results[e]) = 1

\* The walk has returned: one execution failed, one that depends on it was
\* skipped, and one that does not delivered a Result without an error.
C2_Witness ==
    /\ op = "applyWithGraph"
    /\ closed = 1
    /\ \E f \in Execs, d \in Execs, i \in Execs :
         /\ vstate[f] = "err"
         /\ f \in Edges[d]
         /\ pc[d] = "skipped"
         /\ ~DependsOnFailed(i)
         /\ results[i] = <<FALSE>>

\* C3: in plan, flat apply and applyWithGraph the results channel is closed
\* at most once, only when every execution that was started has delivered
\* its Result or was skipped, and no Result is sent after the close.
C3_ClosedOnceAtEnd ==
    /\ closed <= 1
    /\ lateSends = 0
    /\ closed = 1 =>
         \A e \in Execs :
            /\ pc[e] \in {"idle", "done", "skipped"}
            /\ pc[e] = "done" => Len(results[e]) = 1

\* Parallel was shut down by a signal: results is closed, an execution
\* delivered its Result and another was never started.
C3_Witness ==
    /\ closed = 1
    /\ isShutDown
    /\ \E e \in Bound : pc[e] = "idle"
    /\ \E e \in Bound : pc[e] = "done" /\ Len(results[e]) = 1

\* C4: in plan and flat apply without a signal, when results is closed every
\* bound execution has delivered exactly one Result with its own ID, whether
\* or not a step of it or of another execution failed.
C4_OneResultEach ==
    (op \in {"plan", "apply"} /\ signals = 0 /\ closed > 0) =>
        /\ \A e \in Bound : Len(results[e]) = 1
        /\ \A e \in Execs \ Bound : results[e] = <<>>

\* A plan without a signal has ended: one execution failed, another did not.
C4_Witness ==
    /\ op = "plan"
    /\ signals = 0
    /\ closed = 1
    /\ \E e1 \in Bound, e2 \in Bound : results[e1] = <<TRUE>> /\ results[e2] = <<FALSE>>

\* C5: NewProject never accepts a configuration whose dependency relation
\* has a cycle.
C5_CyclicRejected == project = "ok" => ~Cyclic(graphEdges(Execs, deps))

\* C6: once the process has received a signal, no Process.Run starts a child.
C6_NoSpawnAfterSignal ==
    [][signals > 0 => \A e \in Execs : child[e] = "none" => child'[e] = "none"]_vars

\* C7: every signal that arrived while a Run was waiting for its child has
\* been sent to that child once, or is in the Run's channel to be sent.
C7_ForwardedOnce ==
    \A e \in Execs : child[e] = "running" => forwarded[e] + sigChan[e] = arrived[e]

C9_DownloadedOnce ==
    \A v \in Versions :
        downloads[v] > 1 => \E g \in Getters : tver[g] = v /\ got[g].kind = "error"

\* C10: the path Get returns is that of a binary completely written.
C10_NeverPartial == \A g \in Getters : got[g].kind = "path" => got[g].seen = "complete"

\* The goroutines that are downloading and extracting version v: between
\* downloadLock.Lock() and the return of download.
Downloading(v) ==
    {g \in Getters : tver[g] = v /\ tpc[g] \in {"download", "unzip", "copy", "exists"}}

\* C11: for every version at most one goroutine is downloading and
\* extracting it at any time, and that goroutine holds the version's lock.
C11_OneDownloader ==
    \A v \in Versions :
        /\ Cardinality(Downloading(v)) <= 1
        /\ \A g \in Downloading(v) : lock[v] = g

\* A goroutine is writing the binary of a version while another, which asked
\* for the same version, waits for the lock.
C11_Witness ==
    \E g \in Getters, h \in Getters :
        /\ g # h
        /\ tver[g] = tver[h]
        /\ tpc[g] = "copy"
        /\ tpc[h] = "lock"

\* C12: Parallel never has more than maxConcurrent fns running at the same
\* time; plan and the flat apply call it with maxConcurrent = 10.
C12_AtMostN ==
    /\ op \in {"Parallel", "plan", "apply"} => WaitGroup <= maxConcurrent
    /\ op \in {"plan", "apply"} => maxConcurrent = ParallelLimit

\* maxConcurrent fns are running and the loop waits to send on guard for the
\* next one.
C12_Witness ==
    /\ op = "Parallel"
    /\ ownerPc = "loop"
    /\ parNext <= NumBound
    /\ WaitGroup = maxConcurrent
    /\ guard = maxConcurrent

\* C13: once the process has received an interrupt, Parallel starts no fn
\* that it had not started.
C13_NoStartAfterCancel ==
    [][(op = "Parallel" /\ signals > 0) =>
          \A e \in Execs : pc[e] = "idle" => pc'[e] = "idle"]_vars

\* The closure of execution e is at a send on the status channel: before a
\* PreModuleRun hook, or before Init, Detach, Plan or Apply.
AtStatusSend(e) == pc[e] = "hooks" \/ (pc[e] \in RunSteps /\ child[e] = "none")

\* C14: when the caller never receives from status, no execution is ever at
\* a send on status that cannot proceed (nothing takes a line out of the
\* channel, so the execution would deliver no Result and results would
\* never be closed).
C14_NoStatusBlock ==
    ~consumed => \A e \in Execs : AtStatusSend(e) => status < statusCap

\* The free variables of the module of execution e (those without predefined
\* values, which the execution holds as placeholders) to which the user
\* variables give no value.
FreeWithoutValue(e) ==
    {e.moduleConf.Variables[j].Name : j \in {k \in DOMAIN e.moduleConf.Variables :
        /\ e.moduleConf.Variables[k].nil
        /\ e.moduleConf.Variables[k].Name \notin DOMAIN userVars.Values}}

\* C16: bind succeeds if and only if every free variable of the module has a
\* value in the user variables, and otherwise fails with a
\* MissingRequiredVars error that lists exactly the free variables without
\* a value.
C16_BindIffFreeVarsValued ==
    \A i \in DOMAIN binds :
        /\ binds[i].err = "nil" <=> FreeWithoutValue(binds[i].of) = {}
        /\ binds[i].err # "nil" =>
             /\ binds[i].err = "MissingRequiredVars"
             /\ binds[i].missing = FreeWithoutValue(binds[i].of)

\* C17: when bind has failed for an execution, Plan and Apply return the
\* error and no channels, and nothing of the session's operation has
\* started: no goroutine of the operation, no step of any execution, no
\* child process, no line on the status channel.
C17_BindErrorStartsNothing ==
    (\E i \in DOMAIN binds : binds[i].err # "nil") =>
        /\ planRet \in {"binding", "error"}
        /\ op \in {"Plan", "Apply"}
        /\ ownerPc = "off"
        /\ status = 0
        /\ \A e \in Execs : pc[e] = "idle" /\ ~spawned[e] /\ child[e] = "none"

\* Plan or Apply has returned the error of the bind of the first of several
\* executions.
C17_Witness ==
    /\ planRet = "error"
    /\ Len(unbound) > 1
    /\ Len(binds) = 1
    /\ binds[1].err = "MissingRequiredVars"

\* The least string of a non-empty set of strings.
Least(names) == CHOOSE n \in names : \A o \in names : o = n \/ Less(n, o)

\* base followed by "-<value>" for every name of the set, the names taken in
\* ascending order.
RECURSIVE IDByNames(_, _, _)
IDByNames(base, names, variables) ==
    IF names = {} THEN base
    ELSE IDByNames(base \o <<"-">> \o MapGet(variables, Least(names)),
                   names \ {Least(names)}, variables)

\* base followed by "-<value>" for every variable of the list, in the order
\* of the list.
RECURSIVE IDByDeclaration(_, _, _)
IDByDeclaration(base, declared, variables) ==
    IF declared = <<>> THEN base
    ELSE IDByDeclaration(base \o <<"-">> \o MapGet(variables, Head(declared).Name),
                         Tail(declared), variables)

\* C18 (as the code has it): the ID of a bound execution is the module name
\* followed by "-<value>" for each variable of the module, the variables
\* taken in the ascending order of their names.
C18_IDByVariableNames ==
    \A i \in DOMAIN binds : binds[i].err = "nil" =>
        binds[i].id =
            IDByNames(binds[i].of.moduleConf.Name,
                      {binds[i].of.moduleConf.Variables[j].Name :
                          j \in DOMAIN binds[i].of.moduleConf.Variables},
                      binds[i].variables)

\* An execution is bound whose module declares two variables in the
\* descending order of their names, with different values.
C18_Witness ==
    \E i \in DOMAIN binds :
        /\ binds[i].err = "nil"
        /\ Len(binds[i].of.moduleConf.Variables) = 2
        /\ Less(binds[i].of.moduleConf.Variables[2].Name, binds[i].of.moduleConf.Variables[1].Name)
        /\ binds[i].variables[binds[i].of.moduleConf.Variables[1].Name]
             # binds[i].variables[binds[i].of.moduleConf.Variables[2].Name]

\* C18 as stated: the variables are taken in the order the module declares
\* them.
C18_IDByDeclaredOrder ==
    \A i \in DOMAIN binds : binds[i].err = "nil" =>
        binds[i].id = IDByDeclaration(binds[i].of.moduleConf.Name,
                                      binds[i].of.moduleConf.Variables,
                                      binds[i].variables)

\* C19: two different bound executions of a project have different IDs.
C19_IDsUnique ==
    \A i \in DOMAIN binds : \A j \in DOMAIN binds :
        (i # j /\ binds[i].err = "nil" /\ binds[j].err = "nil"
             /\ binds[i].variables # binds[j].variables)
          => binds[i].id # binds[j].id

\* The product of max(1, len(Values)) over the variables of a list.
RECURSIVE ProductOfValues(_)
ProductOfValues(declared) ==
    IF declared = <<>> THEN 1
    ELSE (IF Len(Head(declared).Values) > 1 THEN Len(Head(declared).Values) ELSE 1)
           * ProductOfValues(Tail(declared))

\* C20: when the user variables filter nothing, the number of executions of
\* the module is the product over its variables of max(1, number of values),
\* and one for a module without variables.
C20_CartesianCount ==
    (planRet # "none" /\ userVars.Filters = {}) =>
        Len(unbound) = ProductOfValues(modules[1].Variables)

\* The executions of the project that dependency dep of execution e selects:
\* those of the module it names whose variables agree with the variables of
\* the dependency, templated with the variables of e, on the keys that both
\* have.
Matching(e, dep) ==
    {k \in DOMAIN unbound :
        /\ unbound[k].moduleConf.Name = dep.Module
        /\ \A key \in (DOMAIN dep.Variables) \cap (DOMAIN unbound[k].variables) :
              replaceVars(dep.Variables[key], e.variables) = unbound[k].variables[key]}

Declared(m) == {m.Variables[j].Name : j \in DOMAIN m.Variables}

Enumerated(m) == {m.Variables[j].Name : j \in {i \in DOMAIN m.Variables : Len(m.Variables[i].Values) > 0}}

\* The executions of module m among the executions of the project.
ExecutionsOf(m) == {k \in DOMAIN unbound : unbound[k].moduleConf.Name = m.Name}

\* C21: for a variable that the user gave a value and that is a filter,
\* every execution of a module that declares the variable with a list of
\* values has the user's value for it, and a module that does not declare
\* every filter of the user has no executions.
C21_FilterSelects ==
    planRet = "binding" =>
        \A i \in DOMAIN modules :
            /\ \A name \in userVars.Filters \cap Enumerated(modules[i]) :
                  \A k \in ExecutionsOf(modules[i]) :
                      unbound[k].variables[name] = userVars.Values[name]
            /\ ~(userVars.Filters \subseteq Declared(modules[i]))
                  => ExecutionsOf(modules[i]) = {}

\* Module "m" declares the filter of the user with two values or more and
\* has an execution, and module "n", which has variables but not this one,
\* has none.
C21_Witness ==
    /\ planRet = "binding"
    /\ \E name \in userVars.Filters :
          /\ \E j \in DOMAIN modules[1].Variables :
                /\ modules[1].Variables[j].Name = name
                /\ Len(modules[1].Variables[j].Values) >= 2
          /\ ExecutionsOf(modules[1]) # {}
          /\ name \notin Declared(modules[2])
          /\ Declared(modules[2]) # {}
          /\ ExecutionsOf(modules[2]) = {}

\* C22: when Apply has returned the channels of an operation of the session,
\* the operation is applyWithGraph, which walks the graph, if and only if
\* the caller gave no names of modules, and it is the flat apply if and
\* only if the caller gave names.
C22_ApplyRoute ==
    (planRet = "channels" /\ op # "plan") =>
        /\ (op = "applyWithGraph" /\ ownerPc = "walk") <=> moduleNames.nil
        /\ (op = "apply" /\ ownerPc = "loop") <=> ~moduleNames.nil

\* Apply with the names of one module out of two has started the flat
\* apply on the executions of that module.
C22_Witness ==
    /\ planRet = "channels"
    /\ op = "apply"
    /\ moduleNames.names = {<<"m">>}
    /\ unbound # <<>>
    /\ \A k \in DOMAIN unbound : unbound[k].moduleConf.Name = <<"m">>

C24_ExistingSessionKept ==
    op = "newTerraformSession" =>
        \A e \in Callers :
            LET call == sessionDirs.calls[e]
            IN  (call.dir # 0 /\ (call.existed \/ call.atMkdir)) =>
                    /\ e \notin sessionDirs.dirs[call.dir].writers
                    /\ call.ret # "ok"
                    /\ pc[e] = "done" => call.ret = "error"

\* Two calls for the same ID: one made the directory and returned a
\* session, the other one was called when the directory was there and
\* returned an error.
C24_Witness ==
    \E e \in Callers : \E f \in Callers :
        /\ sessionDirs.calls[e].ret = "ok"
        /\ sessionDirs.calls[f].dir = sessionDirs.calls[e].dir
        /\ sessionDirs.calls[f].existed
        /\ sessionDirs.calls[f].ret = "error"
        /\ sessionDirs.dirs[sessionDirs.calls[e].dir].writers = {e}

\* The subprocesses of Detach, Plan and Apply.
AfterInit == {"remote", "grep", "reinit", "workspace", "plan", "show", "apply"}

\* Init runs "terraform init" (or "remote config") unless the version is
\* before 0.9 and there is no backend.
InitRuns(t) == ~(VersionLegacy(t.version) /\ ~t.backend)

\* The trace up to entry i has an Init that succeeded: its init subprocess,
\* when it has one, and then its get.
InitDoneBefore(t, i) ==
    \E j \in 1 .. (i - 1) :
        /\ t.trace[j].cmd = "get"
        /\ t.trace[j].started
        /\ ~t.trace[j].err
        /\ InitRuns(t) => \E k \in 1 .. (j - 1) :
                             t.trace[k].cmd = "init" /\ t.trace[k].started /\ ~t.trace[k].err

\* C25: every subprocess of Detach, Plan or Apply of an execution is started
\* after the init and get of Init succeeded, and none is started when the
\* first init or get of the execution failed.
C25_InitFirst ==
    op = "terraform" =>
        /\ \A i \in DOMAIN tool.trace :
              (tool.trace[i].cmd \in AfterInit /\ tool.trace[i].started) => InitDoneBefore(tool, i)
        /\ \A i \in DOMAIN tool.trace :
              (tool.trace[i].err /\ \A j \in 1 .. (i - 1) : tool.trace[j].cmd \in {"init", "get"})
                 => \A j \in DOMAIN tool.trace : j > i => ~tool.trace[j].started

\* A plan with detach whose init, get, detach and plan subprocesses ran in
\* this order.
C25_Witness ==
    /\ op = "terraform"
    /\ detach
    /\ InitRuns(tool)
    /\ \E i \in DOMAIN tool.trace :
          /\ tool.trace[i].cmd = "plan"
          /\ tool.trace[i].started
          /\ \E j \in 1 .. (i - 1) : tool.trace[j].cmd \in {"remote", "reinit"}
          /\ tool.trace[1].cmd = "init"
          /\ tool.trace[2].cmd = "get"

\* C26: when a plan with detach has sent a Result without error, the file
\* terraform.tfstate is in the module directory; when it is not there after
\* the steps of Detach, no subprocess of Plan is started and the Result has
\* an error.
C26_DetachLeavesState ==
    (op = "terraform" /\ detach) =>
        /\ (tool.result.sent /\ ~tool.result.err) => tool.stateFile
        /\ (\E i \in DOMAIN tool.trace :
               tool.trace[i].cmd \in {"workspace", "plan", "show"}) => tool.stateFile
        /\ (tool.todo = <<>> /\ ~tool.stateFile) => (tool.result.sent /\ tool.result.err)

\* A plan with detach sent a Result without error; another one ran every
\* step of Detach without a state file and sent an error.
C26_Witness ==
    /\ op = "terraform"
    /\ detach
    /\ tool.result.sent
    /\ \/ ~tool.result.err /\ tool.stateFile /\ \E i \in DOMAIN tool.trace : tool.trace[i].cmd = "reinit"
       \/ /\ tool.result.err
          /\ ~tool.stateFile
          /\ Len(tool.trace) > 1
          /\ tool.trace[Len(tool.trace)].cmd = "stateCheck"
          /\ tool.trace[Len(tool.trace) - 1].cmd \in {"remote", "reinit"}
          /\ ~tool.trace[Len(tool.trace) - 1].err

\* The subprocess "terraform plan" in the trace, when Plan has run it.
PlanRun(t) == {i \in DOMAIN t.trace : t.trace[i].cmd = "plan" /\ t.trace[i].started}

\* The changes of a plan with exit code 2 were obtained: "terraform show"
\* succeeded or, from 0.12 on, the output of the plan had the expected form.
ChangesObtained(t) ==
    IF VersionBefore012(t.version)
      THEN \E i \in DOMAIN t.trace :
              t.trace[i].cmd = "show" /\ t.trace[i].code = 0 /\ ~t.trace[i].sig
      ELSE \E i \in DOMAIN t.trace : t.trace[i].cmd = "parse" /\ ~t.trace[i].err

InDestDir(path) ==
    Len(path) >= Len(destDir) /\ SubSeq(path, 1, Len(destDir)) = destDir

\* C28: unzip of an archive with an entry whose path, joined to destDir,
\* is not below destDir returns an error, and unzip writes no file and
\* makes no directory that is not below destDir.
C28_ZipSlipRejected ==
    op = "unzip" =>
        /\ \A path \in zip.files \cup zip.dirs : InDestDir(path)
        /\ (\E i \in DOMAIN zip.archive : ~InDestDir(filepathJoin(destDir, zip.archive[i].name)))
              => zip.ret # "nil"

\* A Get of version v has returned the path of its binary.
GotPath(v) == \E h \in Getters : tver[h] = v /\ tpc[h] = "done" /\ got[h].kind = "path"

\* C29: a Get(v) that is called after a Get(v) has returned the path
\* returns the path too, at once, and nothing is downloaded for it.
C29_GetIdempotent ==
    [][\A g \in Getters :
          (tpc[g] = "idle" /\ tpc'[g] # "idle" /\ GotPath(tver'[g])) =>
              /\ tpc'[g] = "done"
              /\ got'[g].kind = "path"
              /\ downloads' = downloads]_vars

\* The first Get of a version downloaded it, a second Get of it returned
\* the path, and the version was downloaded once.
C29_Witness ==
    \E g \in Getters : \E h \in Getters \ {g} :
        /\ tver[g] = tver[h]
        /\ tver[g] \in Versions
        /\ got[g].kind = "path"
        /\ got[h].kind = "path"
        /\ downloads[tver[g]] = 1

\* The lines of a hook's output: the texts between its newlines; a newline
\* at the end opens no further line.
RECURSIVE LinesOf(_, _)
LinesOf(out, line) ==
    IF out = <<>> THEN (IF line = <<>> THEN <<>> ELSE <<line>>)
    ELSE IF Head(out) = "\n" THEN <<line>> \o LinesOf(Tail(out), <<>>)
    ELSE LinesOf(Tail(out), Append(line, Head(out)))

\* The line has the form KEY=VALUE, KEY being what precedes its first '='.
HasEquals(line) == \E i \in 1..Len(line) : line[i] = "="

\* KEY is empty.
EmptyKey(line) == line # <<>> /\ line[1] = "="

\* The number of the first line of ls that p holds of, Len(ls) + 1 when
\* there is none.
FirstLine(ls, p(_)) ==
    IF \E i \in 1..Len(ls) : p(ls[i])
      THEN CHOOSE i \in 1..Len(ls) : p(ls[i]) /\ \A j \in 1..(i - 1) : ~p(ls[j])
      ELSE Len(ls) + 1

NoEquals(line) == ~HasEquals(line)

\* The place of the first '=' of a line that has one.
EqualsAt(line) == CHOOSE j \in 1..Len(line) : line[j] = "=" /\ \A h \in 1..(j - 1) : line[h] # "="

KeyOf(line) == SubSeq(line, 1, EqualsAt(line) - 1)

ValueOf(line) == SubSeq(line, EqualsAt(line) + 1, Len(line))

\* The environment after the lines 1..n of ls, each KEY=VALUE, have been
\* set in order: for each key the value of the last line that has the key.
EnvironOf(ls, n) ==
    {<<KeyOf(ls[i]), ValueOf(ls[i])>> :
        i \in {i \in 1..n : \A h \in (i + 1)..n : KeyOf(ls[h]) # KeyOf(ls[i])}}

\* The hook with set_env has exited with status zero and
\* runCommandkAndSetEnvironment has returned.
HookParsed == op = "runHook" /\ env.pc = "done" /\ env.code = 0 /\ env.setEnv

Occurrences(text, stream) ==
    Cardinality({k \in 1..(Len(stream) - Len(text) + 1) :
                    SubSeq(stream, k, k + Len(text) - 1) = text})

\* C31: when an execution fails because its Terraform subprocess failed,
\* the text the child wrote to its stderr is written to the stderr of the
\* command exactly once.
C31_ChildStderrOnce ==
    op = "printExecStatus" =>
        \A i \in 1..display.printed :
            LET r == display.queue[i]
            IN  (r.failed /\ r.stderr # <<>>) =>
                    Occurrences(Written(i, r.stderr), display.stderr) = 1

\* The goroutine of e is between its start and the send of its Result.
Running(e) == pc[e] \notin {"idle", "done", "skipped"}

\* C32: in plan, flat apply and applyWithGraph, with a caller that takes
\* nothing out of results, every execution has sent at most one Result, the
\* Results sent are never more than the capacity of the channel, and
\* whenever a goroutine has its Result still to send the channel has room
\* for it: no send on results blocks.
C32_ResultsNeverBlock ==
    op \in {"plan", "apply", "applyWithGraph"} =>
        /\ \A e \in Execs : Len(results[e]) <= 1
        /\ ChanLen <= ResultsCap
        /\ \A e \in Execs : Running(e) => ChanLen < ResultsCap

\* The operation has ended and nothing was received: results is closed and
\* holds as many Results as it has room for.
C32_Witness ==
    /\ op \in {"plan", "apply", "applyWithGraph"}
    /\ closed = 1
    /\ ChanLen = ResultsCap
    /\ \A e \in Bound : Len(results[e]) = 1

\* C33: for every configuration that NewProject accepted, whatever the
\* child processes return, applyWithGraph closes the results channel in the
\* end.
C33_WalkCloses == (op = "applyWithGraph") ~> (closed = 1)

\* C34: once a signal has reached the process during plan, flat apply or
\* applyWithGraph, the results channel is closed in the end, the children
\* exiting in the end.
C34_InterruptTerminates == (signals > 0) ~> (closed = 1)

\* C35: in plan the goroutine of an execution runs PreModuleRun hooks of
\* its own module only: never more hooks than its module has and, once it
\* is past the hooks, all of them, however the goroutines are interleaved.
C35_OwnHooksInPlan ==
    op = "plan" =>
        \A e \in Bound :
            /\ hookIdx[e] <= hooks[e]
            /\ pc[e] \in RunSteps => hookIdx[e] = hooks[e]

\* C36: once the operation has begun no execution writes the environment
\* of the process: the environment stays what the startup hooks left, and
\* the child of every execution is given that environment.
C36_EnvironSetOnce ==
    op = "hooksEnv" =>
        /\ inherit.environ = inherit.began
        /\ \A e \in Execs : inherit.child[e].started => inherit.child[e].Env = inherit.began

\* The executions of unbound that are the targets of the edges graph()
\* connects for dependency j of execution i.
Connected(i, j) == graphConnect(unbound, i, j)

\* The executions of the module that dep names whose variables have every
\* key of the dependency's variables, with the value the dependency gives
\* once it is templated with the variables of e.
MatchingEveryKey(e, dep) ==
    {k \in DOMAIN unbound :
        /\ unbound[k].moduleConf.Name = dep.Module
        /\ \A key \in DOMAIN dep.Variables :
              /\ key \in DOMAIN unbound[k].variables
              /\ replaceVars(dep.Variables[key], e.variables) = unbound[k].variables[key]}

\* C37: when graph() returns no error, a dependency of an execution
\* connects it to exactly the executions of the named module that agree
\* with the dependency's variables, templated with the variables of the
\* depending execution, on every key of the dependency that the execution
\* has itself; a key that an execution of the module does not have is
\* ignored for it, and a dependency without variables connects to every
\* execution of the module.
C37_EdgesByFilter ==
    project = "ok" =>
        \A i \in DOMAIN unbound : \A j \in DOMAIN unbound[i].moduleConf.Deps :
            Connected(i, j) = Matching(unbound[i], unbound[i].moduleConf.Deps[j])

\* NewProject accepted a dependency whose variable is the template of a
\* variable of the depending execution: the execution is connected to an
\* execution of the module and not to another whose value differs.
C37_Witness ==
    /\ project = "ok"
    /\ \E i \in DOMAIN unbound : \E j \in DOMAIN unbound[i].moduleConf.Deps :
          LET dep == unbound[i].moduleConf.Deps[j]
          IN  /\ \E key \in DOMAIN dep.Variables : dep.Variables[key].ref
              /\ Connected(i, j) # {}
              /\ \E k \in DOMAIN unbound :
                    /\ unbound[k].moduleConf.Name = dep.Module
                    /\ k \notin Connected(i, j)

\* C37 as stated: the executions connected are those that agree on every
\* key listed in the dependency's variables.
C37_EdgesByEveryKey ==
    project = "ok" =>
        \A i \in DOMAIN unbound : \A j \in DOMAIN unbound[i].moduleConf.Deps :
            Connected(i, j) = MatchingEveryKey(unbound[i], unbound[i].moduleConf.Deps[j])

\* C38: Detach changes the content of no file under the code root: every
\* file of the code root holds what it held when the sandbox was cloned,
\* while the files of the sandbox are rewritten and when a rewrite fails.
C38_CodeRootUntouched ==
    op = "deleteBackendConfig" =>
        \A f \in Files : sandbox.content[sandbox.root[f]] = sandbox.was[f]

\* C39: a signal that reaches the process during plan, flat apply or
\* applyWithGraph is followed by the "Received signal" notice, and the
\* notice is never printed twice, whatever the number of children running
\* when the signal arrives.
C39_OneNotice ==
    /\ [](notices <= 1)
    /\ (signals > 0) ~> (notices = 1)

=============================================================================
